---------------------------- MODULE Spec2Model ----------------------------
(***************************************************************************)
(* A model of esp-idf-part: the partition table codec (binary and CSV),    *)
(* the format detection of PartitionTable::try_from and the validator.     *)
(*                                                                         *)
(* Values.  A byte is an integer 0..255, a byte buffer and a String (its   *)
(* UTF-8 bytes) are sequences of bytes.  A u32 is the record [hi, lo] of   *)
(* its two 16-bit halves (value hi * 2^16 + lo), so that the whole 32-bit  *)
(* range and its wraparound are representable.  A Result is Ok(v), Err(e)  *)
(* or Panic (the call aborts: unwrap on None, slice out of range,          *)
(* arithmetic overflow with overflow checks on).                           *)
(***************************************************************************)
EXTENDS Integers, Sequences, FiniteSets, TLC

VARIABLES
    build,   \* "debug" | "release": whether arithmetic overflow panics or wraps
    table,   \* the PartitionTable the caller built with PartitionTable::new
    input,   \* the byte buffer / text the caller holds (decode input)
    origin,  \* where input came from: "none", "raw", "to_bin", "to_csv", "flip"
    result   \* the last call: [op, out, parsed, compared]

vars == <<build, table, input, origin, result>>

---------------------------------------------------------------------------
(* Result values *)

Ok(v) == [st |-> "ok", val |-> v]
OkUnit == [st |-> "ok"]
Err(e) == [st |-> "err", err |-> e]
Panic == [st |-> "panic"]

IsOk(r) == r.st = "ok"
IsErr(r) == r.st = "err"
IsPanic(r) == r.st = "panic"

---------------------------------------------------------------------------
(* Sequences of bytes *)

Repeat(b, n) == [i \in 1..n |-> b]

\* The least element of a non-empty set of numbers
First(S) == CHOOSE x \in S : \A y \in S : x <= y

\* ss[lo] \o ... \o ss[hi]
RECURSIVE ConcatRange(_, _, _)
ConcatRange(ss, lo, hi) ==
    IF lo > hi THEN <<>>
    ELSE IF lo = hi THEN ss[lo]
    ELSE LET mid == (lo + hi) \div 2
         IN  ConcatRange(ss, lo, mid) \o ConcatRange(ss, mid + 1, hi)

Concat(ss) == ConcatRange(ss, 1, Len(ss))

\* s.starts_with(p)
StartsWith(s, p) == Len(s) >= Len(p) /\ SubSeq(s, 1, Len(p)) = p

\* The first n elements of s (all of s when it is shorter): Iterator::zip
\* against a fixed array of n slots.
Take(s, n) == SubSeq(s, 1, IF Len(s) < n THEN Len(s) ELSE n)

---------------------------------------------------------------------------
(* u32 *)

Half == 256 * 256

\* The u32 of a literal n < 2^31.
U32(n) == [hi |-> n \div Half, lo |-> n % Half]

U32Lt(a, b) == a.hi < b.hi \/ (a.hi = b.hi /\ a.lo < b.lo)
U32Max(a, b) == IF U32Lt(a, b) THEN b ELSE a
U32Min(a, b) == IF U32Lt(b, a) THEN b ELSE a

\* a % d for a divisor d of 2^16 (the alignments 4, 0x1000 and 0x10000 are):
\* hi * 2^16 is a multiple of d, so only the low half counts.
U32Rem(a, d) == a.lo % d

\* a + b: the wrapped 32-bit sum and whether it overflowed.
U32Add(a, b) ==
    LET lo == a.lo + b.lo
        hi == a.hi + b.hi + (lo \div Half)
    IN  [overflow |-> hi >= Half, val |-> [hi |-> hi % Half, lo |-> lo % Half]]

to_le_bytes(x) == <<x.lo % 256, x.lo \div 256, x.hi % 256, x.hi \div 256>>
from_le_bytes(b) == [hi |-> b[3] + 256 * b[4], lo |-> b[1] + 256 * b[2]]

---------------------------------------------------------------------------
(* UTF-8 (String::from_utf8, String::from_utf8_lossy) *)

Utf8Width(lead) ==
    IF lead < 128 THEN 1
    ELSE IF lead \in 194..223 THEN 2
    ELSE IF lead \in 224..239 THEN 3
    ELSE IF lead \in 240..244 THEN 4
    ELSE 0

Utf8SecondLo(lead) == IF lead = 224 THEN 160 ELSE IF lead = 240 THEN 144 ELSE 128
Utf8SecondHi(lead) == IF lead = 237 THEN 159 ELSE IF lead = 244 THEN 143 ELSE 191

\* The chunk starting at b[i]: a well-formed scalar value of n bytes, or an
\* ill-formed maximal subpart of n bytes.
Utf8Chunk(b, i) ==
    LET w == Utf8Width(b[i])
        ok2 == /\ w >= 2 /\ i + 1 <= Len(b)
               /\ b[i + 1] >= Utf8SecondLo(b[i]) /\ b[i + 1] <= Utf8SecondHi(b[i])
        ok3 == w >= 3 /\ ok2 /\ i + 2 <= Len(b) /\ b[i + 2] \in 128..191
        ok4 == w >= 4 /\ ok3 /\ i + 3 <= Len(b) /\ b[i + 3] \in 128..191
        valid == \/ w = 1 \/ (w = 2 /\ ok2) \/ (w = 3 /\ ok3) \/ (w = 4 /\ ok4)
    IN  [valid |-> valid,
         n |-> IF valid THEN w
               ELSE IF w = 0 \/ ~ok2 THEN 1
               ELSE IF w = 3 \/ ~ok3 THEN 2
               ELSE 3]

\* String::from_utf8(b).is_ok(): b is a run of well-formed chunks.  Every
\* byte that is not a continuation byte (80..BF) starts a well-formed chunk,
\* and every continuation byte lies inside the chunk of a lead byte before it.
IsUtf8(b) ==
    \A i \in 1..Len(b) :
        IF b[i] \in 128..191
        THEN \E j \in 1..3 : /\ i - j >= 1
                             /\ Utf8Width(b[i - j]) > j
                             /\ Utf8Chunk(b, i - j).valid
        ELSE Utf8Chunk(b, i).valid

REPLACEMENT_CHARACTER == <<239, 191, 189>>

RECURSIVE LossyFrom(_, _)
LossyFrom(b, i) ==
    IF i > Len(b) THEN <<>>
    ELSE LET c == Utf8Chunk(b, i)
         IN  (IF c.valid THEN SubSeq(b, i, i + c.n - 1) ELSE REPLACEMENT_CHARACTER)
             \o LossyFrom(b, i + c.n)

\* String::from_utf8_lossy: valid input is returned as it is (Cow::Borrowed),
\* otherwise every ill-formed maximal subpart becomes U+FFFD.
from_utf8_lossy(b) == IF IsUtf8(b) THEN b ELSE LossyFrom(b, 1)

\* str::trim_matches(char::from(0))
RECURSIVE TrimStartNul(_)
TrimStartNul(s) ==
    IF s # <<>> /\ Head(s) = 0 THEN TrimStartNul(Tail(s)) ELSE s

RECURSIVE TrimEndNul(_)
TrimEndNul(s) ==
    IF s # <<>> /\ s[Len(s)] = 0 THEN TrimEndNul(SubSeq(s, 1, Len(s) - 1)) ELSE s

trim_matches_nul(s) == TrimEndNul(TrimStartNul(s))

---------------------------------------------------------------------------
(* Program constants *)

APP_PARTITION_ALIGNMENT == 65536
DATA_PARTITION_ALIGNMENT == 4096
MAX_NAME_LEN == 16
MD5_NUM_MAGIC_BYTES == 16
PARTITION_SIZE == 32
MAX_PARTITION_LENGTH == 3072
MAX_APP_PART_SIZE == 16777216
OTADATA_SIZE == 8192

MD5_PART_MAGIC_BYTES == <<235, 235>> \o Repeat(255, 14)
MAGIC_BYTES == <<170, 80>>
END_MARKER == Repeat(255, 32)

---------------------------------------------------------------------------
(* Type, SubType, Flags, Partition *)

TypeApp == [tag |-> "App", v |-> 0]
TypeData == [tag |-> "Data", v |-> 1]
TypeCustom(n) == [tag |-> "Custom", v |-> n]

\* impl From<u8> for Type
TypeFromU8(ty) ==
    IF ty = 0 THEN TypeApp ELSE IF ty = 1 THEN TypeData ELSE TypeCustom(ty)

\* impl From<Type> for u8
TypeIntoU8(ty) ==
    IF ty.tag = "App" THEN 0 ELSE IF ty.tag = "Data" THEN 1 ELSE ty.v

\* The discriminants of AppType and of DataType; a variant is named by its
\* discriminant.
AppTypeRepr == {0} \cup (16..31) \cup {32}
DataTypeRepr == (0..6) \cup (128..131)

Factory == 0
Ota == 0

SubApp(x) == [tag |-> "App", v |-> x]
SubData(y) == [tag |-> "Data", v |-> y]
SubCustom(n) == [tag |-> "Custom", v |-> n]

\* impl From<SubType> for u8
SubTypeIntoU8(st) == st.v

\* SubType::app: AppType::from_repr(value).unwrap()
SubType_app(value) ==
    IF value \in AppTypeRepr THEN Ok(SubApp(value)) ELSE Panic

\* SubType::data: DataType::from_repr(value).unwrap()
SubType_data(value) ==
    IF value \in DataTypeRepr THEN Ok(SubData(value)) ELSE Panic

\* Flags: the bits of the u32 (ENCRYPTED = 0b01, READONLY = 0b10).
ENCRYPTED == 1
READONLY == 2
FlagsContains(flags, f) == (flags \div f) % 2 = 1

\* Partition::new
Partition(name, ty, subtype, offset, size, flags) ==
    [name |-> name, ty |-> ty, subtype |-> subtype,
     offset |-> offset, size |-> size, flags |-> flags]

\* overlaps with <= in place of <: ranges that only touch count as
\* overlapping
overlaps_Inclusive(b, self, other) ==
    LET endA == U32Add(self.offset, self.size)
        endB == U32Add(other.offset, other.size)
    IN  IF b = "debug" /\ (endA.overflow \/ endB.overflow) THEN Panic
        ELSE Ok(~U32Lt(U32Min(endA.val, endB.val), U32Max(self.offset, other.offset)))

\* Partition::overlaps.  The two sums are u32 additions: with overflow checks
\* (debug) an overflow panics, without (release) the sum wraps.
overlaps(b, self, other) ==
    LET endA == U32Add(self.offset, self.size)
        endB == U32Add(other.offset, other.size)
    IN  IF b = "debug" /\ (endA.overflow \/ endB.overflow) THEN Panic
        ELSE Ok(U32Lt(U32Max(self.offset, other.offset), U32Min(endA.val, endB.val)))

\* Partition::write_bin: the 32 bytes of one record.
write_bin(self) ==
    LET nameBytes == Take(self.name, 16)
    IN  MAGIC_BYTES
        \o <<TypeIntoU8(self.ty), SubTypeIntoU8(self.subtype)>>
        \o to_le_bytes(self.offset)
        \o to_le_bytes(self.size)
        \o nameBytes \o Repeat(0, 16 - Len(nameBytes))
        \o to_le_bytes(U32(self.flags))

---------------------------------------------------------------------------
(* MD5.  The md5 crate is not part of the repository; what the codec uses   *)
(* of it is that the digest is 16 bytes, a function of the bytes fed in     *)
(* order, and (for checksum purposes) collision-free.  The context is the   *)
(* sequence of bytes fed so far; the digest is a position-sensitive         *)
(* checksum whose first byte changes whenever a single byte of the data     *)
(* changes.                                                                 *)

\* The sum of weight(i) * data[i] for i in lo..hi, modulo m
RECURSIVE Md5Sum(_, _, _, _, _)
Md5Sum(data, lo, hi, weighted, m) ==
    IF lo > hi THEN 0
    ELSE IF lo = hi THEN ((IF weighted THEN lo ELSE 1) * data[lo]) % m
    ELSE LET mid == (lo + hi) \div 2
         IN  (Md5Sum(data, lo, mid, weighted, m) + Md5Sum(data, mid + 1, hi, weighted, m)) % m

\* Md5::finalize
Md5(data) ==
    LET a == Md5Sum(data, 1, Len(data), FALSE, 256)
        b == Md5Sum(data, 1, Len(data), TRUE, 251)
        n == Len(data) \div 32
        digest == [k \in 1..16 |-> IF k = 1 THEN a
                                   ELSE IF k = 2 THEN b
                                   ELSE (a * k + b + n * (k + 1)) % 256]
    IN  SubSeq(digest, 1, 16)

---------------------------------------------------------------------------
(* Errors *)

NoAppPartition == [e |-> "NoAppPartition"]
MultipleFactoryPartitions == [e |-> "MultipleFactoryPartitions"]
MultipleOtadataPartitions == [e |-> "MultipleOtadataPartitions"]
UnalignedPartition == [e |-> "UnalignedPartition"]
PartitionTooLarge(name) == [e |-> "PartitionTooLarge", name |-> name]
InvalidOtadataPartitionSize == [e |-> "InvalidOtadataPartitionSize"]
DuplicatePartitions(name) == [e |-> "DuplicatePartitions", name |-> name]
OverlappingPartitions(a, b) == [e |-> "OverlappingPartitions", a |-> a, b |-> b]
LengthNotMultipleOf32 == [e |-> "LengthNotMultipleOf32"]
NoEndMarker == [e |-> "NoEndMarker"]
InvalidChecksum(expected, computed) ==
    [e |-> "InvalidChecksum", expected |-> expected, computed |-> computed]
DekuError == [e |-> "DekuError"]
CsvError == [e |-> "CsvError"]
FromUtf8Error == [e |-> "FromUtf8Error"]

---------------------------------------------------------------------------
(* PartitionTable::validate *)

\* The factory test without the look at the subtype
IsFactory_AnyApp(p) == p.ty = TypeApp

IsFactory(p) == p.ty = TypeApp /\ p.subtype = SubApp(Factory)
\* The otadata test without the look at the subtype
IsOtadata_AnyData(p) == p.ty = TypeData

IsOtadata(p) == p.ty = TypeData /\ p.subtype = SubData(Ota)

\* The checks of one partition with the size limit of app partitions taken
\* as exclusive (size >= MAX_APP_PART_SIZE is rejected)
CheckPartition_SizeExclusive(p) ==
    IF p.ty = TypeApp /\ U32Rem(p.offset, APP_PARTITION_ALIGNMENT) # 0
    THEN Err(UnalignedPartition)
    ELSE IF p.ty = TypeData /\ U32Rem(p.offset, DATA_PARTITION_ALIGNMENT) # 0
    THEN Err(UnalignedPartition)
    ELSE IF p.ty = TypeApp /\ ~U32Lt(p.size, U32(MAX_APP_PART_SIZE))
    THEN Err(PartitionTooLarge(p.name))
    ELSE IF IsOtadata(p) /\ p.size # U32(OTADATA_SIZE)
    THEN Err(InvalidOtadataPartitionSize)
    ELSE OkUnit

\* The checks of one partition without the alignment check of data
\* partitions
CheckPartition_NoDataAlignment(p) ==
    IF p.ty = TypeApp /\ U32Rem(p.offset, APP_PARTITION_ALIGNMENT) # 0
    THEN Err(UnalignedPartition)
    ELSE IF p.ty = TypeApp /\ U32Lt(U32(MAX_APP_PART_SIZE), p.size)
    THEN Err(PartitionTooLarge(p.name))
    ELSE IF IsOtadata(p) /\ p.size # U32(OTADATA_SIZE)
    THEN Err(InvalidOtadataPartitionSize)
    ELSE OkUnit

\* The body of `for partition in &self.partitions` (lib.rs 297-322) for one
\* partition: the first of its four checks that fails, or OkUnit.
CheckPartition(p) ==
    IF p.ty = TypeApp /\ U32Rem(p.offset, APP_PARTITION_ALIGNMENT) # 0
    THEN Err(UnalignedPartition)
    ELSE IF p.ty = TypeData /\ U32Rem(p.offset, DATA_PARTITION_ALIGNMENT) # 0
    THEN Err(UnalignedPartition)
    ELSE IF p.ty = TypeApp /\ U32Lt(U32(MAX_APP_PART_SIZE), p.size)
    THEN Err(PartitionTooLarge(p.name))
    ELSE IF IsOtadata(p) /\ p.size # U32(OTADATA_SIZE)
    THEN Err(InvalidOtadataPartitionSize)
    ELSE OkUnit

\* The per-partition checks made rule by rule over the whole table (all
\* alignments, then all app sizes, then all otadata sizes) instead of
\* partition by partition
CheckEach_RuleByRule(ps) ==
    LET unaligned == {i \in 1..Len(ps) : ~IsOk(CheckPartition(ps[i]))
                                         /\ CheckPartition(ps[i]).err = UnalignedPartition}
        large == {i \in 1..Len(ps) : ps[i].ty = TypeApp
                                     /\ U32Lt(U32(MAX_APP_PART_SIZE), ps[i].size)}
        odd == {i \in 1..Len(ps) : IsOtadata(ps[i]) /\ ps[i].size # U32(OTADATA_SIZE)}
    IN  IF unaligned # {} THEN Err(UnalignedPartition)
        ELSE IF large # {} THEN Err(PartitionTooLarge(ps[First(large)].name))
        ELSE IF odd # {} THEN Err(InvalidOtadataPartitionSize)
        ELSE OkUnit

\* The loop over the partitions: the failure of the first partition that
\* fails a check.
CheckEach(ps) ==
    LET failing == {i \in 1..Len(ps) : ~IsOk(CheckPartition(ps[i]))}
    IN  IF failing = {} THEN OkUnit ELSE CheckPartition(ps[First(failing)])

\* The body of the nested loops over (partition_a, partition_b) (lib.rs
\* 324-344) for one pair.
CheckPair(b, partition_a, partition_b) ==
    IF partition_a = partition_b THEN OkUnit
    ELSE IF partition_a.name = partition_b.name
    THEN Err(DuplicatePartitions(partition_a.name))
    ELSE LET o == overlaps(b, partition_a, partition_b)
         IN  IF IsPanic(o) THEN Panic
             ELSE IF o.val
             THEN Err(OverlappingPartitions(partition_a.name, partition_b.name))
             ELSE OkUnit

\* The nested loops: the outcome of the first pair, in iteration order, that
\* does not pass.
CheckPairs(b, ps) ==
    LET Fails(i, j) == ~IsOk(CheckPair(b, ps[i], ps[j]))
        outer == {i \in 1..Len(ps) : \E j \in 1..Len(ps) : Fails(i, j)}
        i0 == First(outer)
        j0 == First({j \in 1..Len(ps) : Fails(i0, j)})
    IN  IF outer = {} THEN OkUnit ELSE CheckPair(b, ps[i0], ps[j0])

\* validate with the two counts taken before the look for an app partition
validate_CountsFirst(b, ps) ==
    IF Cardinality({i \in 1..Len(ps) : IsFactory(ps[i])}) > 1
    THEN Err(MultipleFactoryPartitions)
    ELSE IF Cardinality({i \in 1..Len(ps) : IsOtadata(ps[i])}) > 1
    THEN Err(MultipleOtadataPartitions)
    ELSE IF ~\E i \in 1..Len(ps) : ps[i].ty = TypeApp
    THEN Err(NoAppPartition)
    ELSE LET r == CheckEach(ps)
         IN  IF IsOk(r) THEN CheckPairs(b, ps) ELSE r

validate(b, ps) ==
    IF ~\E i \in 1..Len(ps) : ps[i].ty = TypeApp
    THEN Err(NoAppPartition)
    ELSE IF Cardinality({i \in 1..Len(ps) : IsFactory(ps[i])}) > 1
    THEN Err(MultipleFactoryPartitions)
    ELSE IF Cardinality({i \in 1..Len(ps) : IsOtadata(ps[i])}) > 1
    THEN Err(MultipleOtadataPartitions)
    ELSE LET r == CheckEach(ps)
         IN  IF IsOk(r) THEN CheckPairs(b, ps) ELSE r

---------------------------------------------------------------------------
(* PartitionTable::to_bin *)

\* The loop `for partition in &self.partitions { partition.write_bin(..) }`
WriteAll(ps) == Concat([i \in 1..Len(ps) |-> write_bin(ps[i])])

\* to_bin without the padding of lib.rs 229-234
to_bin_Unpadded(ps) ==
    IF Len(ps) * PARTITION_SIZE + 32 > MAX_PARTITION_LENGTH THEN Panic
    ELSE Ok(WriteAll(ps) \o MD5_PART_MAGIC_BYTES \o Md5(WriteAll(ps)))

\* The padding length MAX_PARTITION_LENGTH - written is a usize subtraction:
\* when it underflows the call aborts (overflow panic with checks on, and
\* without them the wrapped length is an allocation no machine can serve).
to_bin(ps) ==
    LET records == WriteAll(ps)
        written == Len(ps) * PARTITION_SIZE + 32
    IN  IF written > MAX_PARTITION_LENGTH THEN Panic
        ELSE Ok(records \o MD5_PART_MAGIC_BYTES \o Md5(records)
                \o Repeat(255, MAX_PARTITION_LENGTH - written))

---------------------------------------------------------------------------
(* PartitionTable::try_from_bytes *)

\* DeserializedBinPartition::from_bytes((line, 0)), the deku reader derived
\* from the struct: the magic AA 50, ty: u8, subtype: u8, offset: u32 (always
\* Some), size: u32, name: [u8; 16], encrypted: bool (one byte, which must be
\* 0 or 1); the last three bytes of the record are not read.
DeserializedBinPartition_from_bytes(line) ==
    IF SubSeq(line, 1, 2) # <<170, 80>> THEN Err(DekuError)
    ELSE IF line[29] \notin {0, 1} THEN Err(DekuError)
    ELSE Ok([ty |-> line[3],
             subtype |-> line[4],
             offset |-> from_le_bytes(SubSeq(line, 5, 8)),
             size |-> from_le_bytes(SubSeq(line, 9, 12)),
             name |-> SubSeq(line, 13, 12 + MAX_NAME_LEN),
             encrypted |-> line[29] = 1])

\* impl From<DeserializedBinPartition> for Partition.  The record's boolean
\* `encrypted` is the ENCRYPTED bit of the partition's flags.
PartitionFromBin(part) ==
    LET ty == TypeFromU8(part.ty)
        subtype == IF ty = TypeApp THEN SubType_app(part.subtype)
                   ELSE IF ty = TypeData THEN SubType_data(part.subtype)
                   ELSE Ok(SubCustom(part.subtype))
    IN  IF IsPanic(subtype) THEN Panic
        ELSE Ok(Partition(trim_matches_nul(from_utf8_lossy(part.name)),
                          ty, subtype.val, part.offset, part.size,
                          IF part.encrypted THEN ENCRYPTED ELSE 0))

\* data.chunks_exact(PARTITION_SIZE): the k-th chunk
Chunk(data, k) == SubSeq(data, PARTITION_SIZE * (k - 1) + 1, PARTITION_SIZE * k)
NumChunks(data) == Len(data) \div PARTITION_SIZE

\* Which branch of the loop body a chunk takes.
RecordKind(line) ==
    IF StartsWith(line, MD5_PART_MAGIC_BYTES) THEN "checksum"
    ELSE IF line # END_MARKER THEN "partition"
    ELSE "end"

\* The partition of a chunk of kind "partition": from_bytes, then From.
ReadPartition(line) ==
    LET de == DeserializedBinPartition_from_bytes(line)
    IN  IF IsOk(de) THEN PartitionFromBin(de.val) ELSE de

\* The chunks among the first k that take the partition branch, in order.
PartitionChunks(data, k) ==
    SelectSeq([j \in 1..k |-> j], LAMBDA j : RecordKind(Chunk(data, j)) = "partition")

\* ctx fed with every chunk met, checksum records included
CtxBefore_EveryChunk(data, k) == SubSeq(data, 1, PARTITION_SIZE * (k - 1))

\* ctx when the loop reaches chunk k: the bytes of the partition records
\* before it, fed in order.
CtxBefore(data, k) ==
    LET fed == PartitionChunks(data, k - 1)
    IN  Concat([i \in 1..Len(fed) |-> Chunk(data, fed[i])])

\* partitions when the loop reaches chunk k
PartitionsBefore(data, k) ==
    LET fed == PartitionChunks(data, k - 1)
    IN  [i \in 1..Len(fed) |-> ReadPartition(Chunk(data, fed[i])).val]

\* The loop with the digest comparison of lib.rs 127 left out: a checksum
\* record never ends it.
LeavesAt_NoComparison(data, k) ==
    \/ RecordKind(Chunk(data, k)) = "end"
    \/ RecordKind(Chunk(data, k)) = "partition" /\ ~IsOk(ReadPartition(Chunk(data, k)))

\* The loop taking an all-0xFF chunk for the end only when it is the last
\* chunk of the buffer, and passing over it otherwise
LeavesAt_LastEnd(data, k) ==
    LET line == Chunk(data, k)
        kind == RecordKind(line)
    IN  \/ kind = "end" /\ k = NumChunks(data)
        \/ kind = "checksum" /\ Md5(CtxBefore(data, k)) # SubSeq(line, 17, 32)
        \/ kind = "partition" /\ ~IsOk(ReadPartition(line))

\* The loop returns at chunk k (given that it reaches chunk k).
LeavesAt(data, k) ==
    LET line == Chunk(data, k)
        kind == RecordKind(line)
    IN  \/ kind = "end"
        \/ kind = "checksum" /\ Md5(CtxBefore(data, k)) # SubSeq(line, 17, 32)
        \/ kind = "partition" /\ ~IsOk(ReadPartition(line))

\* The loop taking the end of the buffer for the end marker: what is left
\* of lib.rs 150 when the table is built after the loop.
ScanRecords_EndAtExhaustion(b, data) ==
    LET leaving == {k \in 1..NumChunks(data) : LeavesAt(data, k)}
        last == IF leaving = {} THEN NumChunks(data) + 1 ELSE First(leaving)
        line == Chunk(data, last)
        kind == IF leaving = {} THEN "end" ELSE RecordKind(line)
        seen == {k \in 1..NumChunks(data) :
                    k <= last /\ RecordKind(Chunk(data, k)) = "checksum"}
        v == validate(b, PartitionsBefore(data, last))
    IN  [out |-> IF kind = "checksum"
                 THEN Err(InvalidChecksum(SubSeq(line, 17, 32), Md5(CtxBefore(data, last))))
                 ELSE IF kind = "partition" THEN ReadPartition(line)
                 ELSE IF IsOk(v) THEN Ok(PartitionsBefore(data, last))
                 ELSE v,
         parsed |-> Len(PartitionChunks(data, IF leaving = {} THEN NumChunks(data) ELSE last)),
         compared |-> Cardinality(seen)]

\* The loop over the chunks: it returns at the first chunk where it leaves,
\* and falls through to NoEndMarker when there is none.  parsed and compared
\* count the records handed to the deku reader and the digests compared.
ScanRecords(b, data) ==
    LET leaving == {k \in 1..NumChunks(data) : LeavesAt(data, k)}
        last == IF leaving = {} THEN NumChunks(data) ELSE First(leaving)
        line == Chunk(data, last)
        kind == RecordKind(line)
        seen == {k \in 1..last : RecordKind(Chunk(data, k)) = "checksum"}
        digest_in_file == SubSeq(line, 17, 32)
        digest_computed == Md5(CtxBefore(data, last))
        v == validate(b, PartitionsBefore(data, last))
    IN  [out |-> IF leaving = {} THEN Err(NoEndMarker)
                 ELSE IF kind = "checksum"
                 THEN Err(InvalidChecksum(digest_in_file, digest_computed))
                 ELSE IF kind = "partition" THEN ReadPartition(line)
                 ELSE IF IsOk(v) THEN Ok(PartitionsBefore(data, last))
                 ELSE v,
         parsed |-> Len(PartitionChunks(data, last)),
         compared |-> Cardinality(seen)]

\* try_from_bytes without the length check of lib.rs 113: chunks_exact
\* passes over the bytes after the last whole chunk.
try_from_bytes_NoLengthCheck(b, data) == ScanRecords(b, data)

try_from_bytes(b, data) ==
    IF Len(data) % 32 # 0
    THEN [out |-> Err(LengthNotMultipleOf32), parsed |-> 0, compared |-> 0]
    ELSE ScanRecords(b, data)

---------------------------------------------------------------------------
(* Text: characters are their ASCII codes *)

COMMA == 44   \* ","
COLON == 58   \* ":"
HASH == 35    \* "#", the reader's comment character
LF == 10
CR == 13

\* "0123456789abcdef"
HexDigits == <<48, 49, 50, 51, 52, 53, 54, 55, 56, 57, 97, 98, 99, 100, 101, 102>>

S_app == <<97, 112, 112>>        \* "app"
S_data == <<100, 97, 116, 97>>  \* "data"
S_0x == <<48, 120>>             \* "0x"
S_encrypted == <<101, 110, 99, 114, 121, 112, 116, 101, 100>>  \* "encrypted"
S_readonly == <<114, 101, 97, 100, 111, 110, 108, 121>>  \* "readonly"

\* The snake_case names of AppType (serde rename_all, strum serialize_all):
\* factory, ota_0 .. ota_15, test
AppTypeName ==
    (0 :> <<102, 97, 99, 116, 111, 114, 121>> @@
     16 :> <<111, 116, 97, 95, 48>> @@
     17 :> <<111, 116, 97, 95, 49>> @@
     18 :> <<111, 116, 97, 95, 50>> @@
     19 :> <<111, 116, 97, 95, 51>> @@
     20 :> <<111, 116, 97, 95, 52>> @@
     21 :> <<111, 116, 97, 95, 53>> @@
     22 :> <<111, 116, 97, 95, 54>> @@
     23 :> <<111, 116, 97, 95, 55>> @@
     24 :> <<111, 116, 97, 95, 56>> @@
     25 :> <<111, 116, 97, 95, 57>> @@
     26 :> <<111, 116, 97, 95, 49, 48>> @@
     27 :> <<111, 116, 97, 95, 49, 49>> @@
     28 :> <<111, 116, 97, 95, 49, 50>> @@
     29 :> <<111, 116, 97, 95, 49, 51>> @@
     30 :> <<111, 116, 97, 95, 49, 52>> @@
     31 :> <<111, 116, 97, 95, 49, 53>> @@
     32 :> <<116, 101, 115, 116>>)

\* The snake_case names of DataType: ota, phy, nvs, coredump, nvs_keys, efuse
\* (the rename of EfuseEm), undefined, esphttpd, fat, spiffs, littlefs
DataTypeName ==
    (0 :> <<111, 116, 97>> @@
     1 :> <<112, 104, 121>> @@
     2 :> <<110, 118, 115>> @@
     3 :> <<99, 111, 114, 101, 100, 117, 109, 112>> @@
     4 :> <<110, 118, 115, 95, 107, 101, 121, 115>> @@
     5 :> <<101, 102, 117, 115, 101>> @@
     6 :> <<117, 110, 100, 101, 102, 105, 110, 101, 100>> @@
     128 :> <<101, 115, 112, 104, 116, 116, 112, 100>> @@
     129 :> <<102, 97, 116>> @@
     130 :> <<115, 112, 105, 102, 102, 115>> @@
     131 :> <<108, 105, 116, 116, 108, 101, 102, 115>>)

\* "# ESP-IDF Partition Table\n" and "# Name,Type,SubType,Offset,Size,Flags\n"
CsvHeader1 ==
    <<35, 32, 69, 83, 80, 45, 73, 68, 70, 32, 80, 97, 114, 116, 105, 116, 105, 111, 110, 32, 84, 97, 98, 108, 101, 10>>
CsvHeader2 ==
    <<35, 32, 78, 97, 109, 101, 44, 84, 121, 112, 101, 44, 83, 117, 98, 84, 121, 112, 101, 44, 79, 102, 102, 115, 101, 116, 44, 83, 105, 122, 101, 44, 70, 108, 97, 103, 115, 10>>

---------------------------------------------------------------------------
(* PartitionTable::to_csv *)

RECURSIVE HexOf(_)
HexOf(n) ==
    IF n < 16 THEN <<HexDigits[n + 1]>>
    ELSE HexOf(n \div 16) \o <<HexDigits[(n % 16) + 1]>>

\* n in exactly w hex digits (n < 16^w)
RECURSIVE HexPad(_, _)
HexPad(n, w) ==
    IF w = 0 THEN <<>> ELSE HexPad(n \div 16, w - 1) \o <<HexDigits[(n % 16) + 1]>>

\* format!("{:#x}", x) for a u32
FormatHexU32(x) ==
    S_0x \o (IF x.hi = 0 THEN HexOf(x.lo) ELSE HexOf(x.hi) \o HexPad(x.lo, 4))

\* format_args!("{:#04x}", ty) for a u8
FormatHexU8(n) == S_0x \o HexPad(n, 2)

\* impl Display for Type
TypeToString(ty) ==
    IF ty.tag = "App" THEN S_app
    ELSE IF ty.tag = "Data" THEN S_data
    ELSE FormatHexU8(ty.v)

\* impl Display for SubType
SubTypeToString(st) ==
    IF st.tag = "App" THEN AppTypeName[st.v]
    ELSE IF st.tag = "Data" THEN DataTypeName[st.v]
    ELSE FormatHexU8(st.v)

RECURSIVE Join(_, _)
Join(fields, sep) ==
    IF fields = <<>> THEN <<>>
    ELSE IF Len(fields) = 1 THEN fields[1]
    ELSE fields[1] \o <<sep>> \o Join(Tail(fields), sep)

\* csv::Writer::write_record with the default builder: the fields joined by
\* "," and ended by "\n".  A field is written as it is unless it holds a
\* comma, a double quote, CR or LF; the model's names hold none of these.
write_record(fields) == Join(fields, COMMA) \o <<LF>>

\* Partition::write_csv: the row of one partition.
write_csv(self) ==
    LET flags == (IF FlagsContains(self.flags, ENCRYPTED) THEN <<S_encrypted>> ELSE <<>>)
                 \o (IF FlagsContains(self.flags, READONLY) THEN <<S_readonly>> ELSE <<>>)
    IN  write_record(<<self.name,
                       TypeToString(self.ty),
                       SubTypeToString(self.subtype),
                       FormatHexU32(self.offset),
                       FormatHexU32(self.size),
                       Join(flags, COLON)>>)

\* The loop `for partition in &self.partitions { partition.write_csv(..) }`
WriteRows(ps) == Concat([i \in 1..Len(ps) |-> write_csv(ps[i])])

to_csv(ps) == Ok(CsvHeader1 \o CsvHeader2 \o from_utf8_lossy(WriteRows(ps)))

---------------------------------------------------------------------------
(* The csv reader of try_from_str: comment character "#", flexible record   *)
(* length, no header row, Trim::All.  The model reads text without double   *)
(* quotes: records end at LF or CR, empty lines and lines that start with   *)
(* "#" are skipped, fields are separated by "," and trimmed of blanks.      *)

\* The pieces of s between the separators, in order (one more piece than
\* there are separators).
Split(s, seps) ==
    LET cut == {i \in 1..Len(s) : s[i] \in seps}
        starts == {1} \cup {i + 1 : i \in cut}
        EndOf(a) == IF \E i \in cut : i >= a
                    THEN First({i \in cut : i >= a}) - 1
                    ELSE Len(s)
        Nth(k) == CHOOSE a \in starts : Cardinality({x \in starts : x <= a}) = k
    IN  [k \in 1..Cardinality(starts) |-> SubSeq(s, Nth(k), EndOf(Nth(k)))]

IsBlank(c) == c \in {32, 9}

RECURSIVE TrimStart(_)
TrimStart(s) == IF s # <<>> /\ IsBlank(Head(s)) THEN TrimStart(Tail(s)) ELSE s

RECURSIVE TrimEnd(_)
TrimEnd(s) ==
    IF s # <<>> /\ IsBlank(s[Len(s)]) THEN TrimEnd(SubSeq(s, 1, Len(s) - 1)) ELSE s

Trim(s) == TrimEnd(TrimStart(s))

\* The records of a text, in order: each a sequence of trimmed fields.
CsvRecords(text) ==
    LET lines == SelectSeq(Split(text, {LF, CR}),
                           LAMBDA l : l # <<>> /\ l[1] # HASH)
    IN  [k \in 1..Len(lines) |->
            LET fs == Split(lines[k], {COMMA})
            IN  [j \in 1..Len(fs) |-> Trim(fs[j])]]

---------------------------------------------------------------------------
(* Integers in text: parse_int::parse and str::parse *)

DigitVal(c) ==
    IF c \in 48..57 THEN c - 48
    ELSE IF c \in 97..102 THEN c - 87
    ELSE IF c \in 65..70 THEN c - 55
    ELSE 99

\* x * m + d for small m and d (m <= 1024): the wrapped u32 and the overflow.
U32MulAdd(x, m, d) ==
    LET lo == x.lo * m + d
        hi == x.hi * m + (lo \div Half)
    IN  [overflow |-> hi >= Half, val |-> [hi |-> hi % Half, lo |-> lo % Half]]

\* u32::from_str_radix(s[i..], radix) continued from the accumulator acc
RECURSIVE ParseDigits(_, _, _, _)
ParseDigits(s, i, radix, acc) ==
    IF i > Len(s) THEN Ok(acc)
    ELSE IF DigitVal(s[i]) >= radix THEN Err(CsvError)
    ELSE LET n == U32MulAdd(acc, radix, DigitVal(s[i]))
         IN  IF n.overflow THEN Err(CsvError) ELSE ParseDigits(s, i + 1, radix, n.val)

FromStrRadix(s, radix) ==
    IF s = <<>> THEN Err(CsvError) ELSE ParseDigits(s, 1, radix, U32(0))

\* parse_int::parse::<u32>: decimal, or hexadecimal, octal, binary after the
\* prefix 0x, 0o, 0b.
ParseU32(buf) ==
    LET radix == IF StartsWith(buf, S_0x) THEN 16
                 ELSE IF StartsWith(buf, <<48, 111>>) THEN 8
                 ELSE IF StartsWith(buf, <<48, 98>>) THEN 2
                 ELSE 10
    IN  FromStrRadix(IF radix = 10 THEN buf ELSE SubSeq(buf, 3, Len(buf)), radix)

\* parse_int::parse::<u8>
ParseU8(buf) ==
    LET Narrow(r) == IF IsOk(r) /\ r.val.hi = 0 /\ r.val.lo <= 255
                     THEN Ok(r.val.lo) ELSE Err(CsvError)
    IN  Narrow(ParseU32(buf))

---------------------------------------------------------------------------
(* The field deserializers of DeserializedCsvPartition *)

None == [some |-> FALSE]
Some(v) == [some |-> TRUE, v |-> v]

\* The byte length of the first n characters of buf, from byte i on.
RECURSIVE CharPrefix(_, _, _)
CharPrefix(buf, i, n) ==
    IF n = 0 \/ i > Len(buf) THEN i - 1
    ELSE CharPrefix(buf, i + Utf8Chunk(buf, i).n, n - 1)

\* deserialize_partition_name: the first MAX_NAME_LEN characters, copied
\* into a zeroed array of MAX_NAME_LEN + 1 bytes.
deserialize_partition_name(buf) ==
    LET bytes == SubSeq(buf, 1, CharPrefix(buf, 1, MAX_NAME_LEN))
        copied == Take(bytes, MAX_NAME_LEN + 1)
        name_bytes == copied \o Repeat(0, MAX_NAME_LEN + 1 - Len(copied))
    IN  Ok(from_utf8_lossy(name_bytes))

deserialize_partition_type(buf) ==
    LET Match(maybe_parsed) ==
            IF buf = S_app \/ maybe_parsed = Ok(0) THEN Ok(TypeApp)
            ELSE IF buf = S_data \/ maybe_parsed = Ok(1) THEN Ok(TypeData)
            ELSE IF IsOk(maybe_parsed) THEN Ok(TypeCustom(maybe_parsed.val))
            ELSE Err(CsvError)
    IN  Match(ParseU8(buf))

deserialize_partition_subtype(buf) ==
    LET Custom(n) == IF IsOk(n) THEN Ok(SubCustom(n.val)) ELSE Err(CsvError)
    IN  IF \E x \in AppTypeRepr : AppTypeName[x] = buf
        THEN Ok(SubApp(CHOOSE x \in AppTypeRepr : AppTypeName[x] = buf))
        ELSE IF \E y \in DataTypeRepr : DataTypeName[y] = buf
        THEN Ok(SubData(CHOOSE y \in DataTypeRepr : DataTypeName[y] = buf))
        ELSE Custom(ParseU8(buf))

\* The regex (?i)^(\d+)([km]{1})$ on ASCII text
IsSuffixed(buf) ==
    /\ Len(buf) >= 2
    /\ buf[Len(buf)] \in {107, 75, 109, 77}
    /\ \A i \in 1..(Len(buf) - 1) : buf[i] \in 48..57

\* deserialize_partition_offset_or_size.  digits.parse::<u32>().unwrap()
\* aborts when the digits do not fit a u32; digits * multiplier is a u32
\* multiplication (panics with overflow checks, wraps without).
deserialize_partition_offset_or_size(b, buf) ==
    LET Scaled(digits, kilo) ==
            LET m1 == U32MulAdd(digits.val, 1024, 0)
                m2 == U32MulAdd(m1.val, 1024, 0)
                overflow == m1.overflow \/ (~kilo /\ m2.overflow)
            IN  IF ~IsOk(digits) THEN Panic
                ELSE IF overflow /\ b = "debug" THEN Panic
                ELSE Ok(Some(IF kilo THEN m1.val ELSE m2.val))
        Parsed(r) ==
            IF IsOk(r) THEN Ok(Some(r.val))
            ELSE IF IsSuffixed(buf)
            THEN Scaled(FromStrRadix(SubSeq(buf, 1, Len(buf) - 1), 10),
                        buf[Len(buf)] \in {107, 75})
            ELSE Err(CsvError)
    IN  IF buf = <<>> THEN Ok(None) ELSE Parsed(ParseU32(buf))

deserialize_partition_offset(b, buf) == deserialize_partition_offset_or_size(b, buf)

deserialize_partition_size(b, buf) ==
    LET Required(r) == IF ~IsOk(r) THEN r
                       ELSE IF r.val.some THEN Ok(r.val.v)
                       ELSE Err(CsvError)
    IN  Required(deserialize_partition_offset_or_size(b, buf))

deserialize_partition_flags(buf) == Ok(trim_matches_nul(buf) = S_encrypted)

\* serde's positional read of one record into DeserializedCsvPartition: the
\* fields in declaration order, the first failure ends it; a missing field
\* is an error, except `encrypted`, which has #[serde(default)].
DeserializeCsvRecord(b, rec) ==
    LET n == Len(rec)
        Fields(name, ty, subtype, offset, size, encrypted) ==
            IF n < 2 THEN Err(CsvError)
            ELSE IF ~IsOk(ty) THEN ty
            ELSE IF n < 3 THEN Err(CsvError)
            ELSE IF ~IsOk(subtype) THEN subtype
            ELSE IF n < 4 THEN Err(CsvError)
            ELSE IF ~IsOk(offset) THEN offset
            ELSE IF n < 5 THEN Err(CsvError)
            ELSE IF ~IsOk(size) THEN size
            ELSE Ok([name |-> name.val,
                     ty |-> ty.val, subtype |-> subtype.val,
                     offset |-> offset.val, size |-> size.val,
                     encrypted |-> encrypted.val])
    IN  Fields(deserialize_partition_name(rec[1]),
               deserialize_partition_type(rec[2]),
               deserialize_partition_subtype(rec[3]),
               deserialize_partition_offset(b, rec[4]),
               deserialize_partition_size(b, rec[5]),
               IF n >= 6 THEN deserialize_partition_flags(rec[6]) ELSE Ok(FALSE))

---------------------------------------------------------------------------
(* PartitionTable::try_from_str *)

\* a - b on u32, wrapped
U32Sub(a, b) ==
    LET lo == a.lo - b.lo
        borrow == IF lo < 0 THEN 1 ELSE 0
        hi == a.hi - b.hi - borrow
    IN  [hi |-> (hi + Half) % Half, lo |-> (lo + Half) % Half]

\* fix_offset rounding the cursor down to the alignment instead of up
fix_offset_RoundsDown(b, self, offset) ==
    LET alignment == IF self.ty = TypeApp THEN APP_PARTITION_ALIGNMENT ELSE 4
        rem == U32Rem(offset, alignment)
        aligned == IF rem # 0 THEN U32Sub(offset, U32(rem)) ELSE offset
        fixed == IF self.offset.some THEN self.offset.v ELSE aligned
        next == U32Add(fixed, self.size)
    IN  IF b = "debug" /\ next.overflow THEN Panic
        ELSE Ok([part |-> [self EXCEPT !.offset = Some(fixed)], offset |-> next.val])

\* DeserializedCsvPartition::fix_offset: the row with its offset set, and the
\* returned offset for the next row.  Both additions are u32 additions.
fix_offset(b, self, offset) ==
    LET alignment == IF self.ty = TypeApp THEN APP_PARTITION_ALIGNMENT ELSE 4
        rem == U32Rem(offset, alignment)
        up == U32Add(offset, U32(alignment))
        aligned == IF rem # 0 THEN U32Sub(up.val, U32(rem)) ELSE offset
        fixed == IF self.offset.some THEN self.offset.v ELSE aligned
        next == U32Add(fixed, self.size)
    IN  IF b = "debug" /\ ~self.offset.some /\ rem # 0 /\ up.overflow THEN Panic
        ELSE IF b = "debug" /\ next.overflow THEN Panic
        ELSE Ok([part |-> [self EXCEPT !.offset = Some(fixed)], offset |-> next.val])

\* The conversion with the subtype kept as the field deserialised it,
\* whatever the row's type
PartitionFromCsv_KeepsToken(part) ==
    Ok(Partition(trim_matches_nul(part.name), part.ty, part.subtype,
                 part.offset.v, part.size,
                 IF part.encrypted THEN ENCRYPTED ELSE 0))

\* impl From<DeserializedCsvPartition> for Partition.  The record's boolean
\* `encrypted` is the ENCRYPTED bit of the partition's flags.
PartitionFromCsv(part) ==
    LET subtype == IF part.ty = TypeApp THEN SubType_app(SubTypeIntoU8(part.subtype))
                   ELSE IF part.ty = TypeData THEN SubType_data(SubTypeIntoU8(part.subtype))
                   ELSE Ok(part.subtype)
    IN  IF IsPanic(subtype) THEN Panic
        ELSE Ok(Partition(trim_matches_nul(part.name), part.ty, subtype.val,
                          part.offset.v, part.size,
                          IF part.encrypted THEN ENCRYPTED ELSE 0))

\* The cursor starts at 0x9000.
DEFAULT_OFFSET == 36864

\* `offset` after the first k records went through the loop body, all of
\* which deserialised.  fix_offset reads the cursor only for a record without
\* an offset, so for a record with one the cursor before it is not computed.
\* The sums are taken wrapped: where one overflows under overflow checks the
\* loop has ended at that record and the cursor is not read again, and
\* likewise after a record that did not deserialise.
RECURSIVE OffsetAfter(_, _, _)
OffsetAfter(b, records, k) ==
    LET Fixed(de) ==
            IF ~IsOk(de) THEN U32(DEFAULT_OFFSET)
            ELSE fix_offset("release", de.val,
                            IF de.val.offset.some THEN U32(DEFAULT_OFFSET)
                            ELSE OffsetAfter(b, records, k - 1)).val.offset
    IN  IF k = 0 THEN U32(DEFAULT_OFFSET)
        ELSE Fixed(DeserializeCsvRecord(b, records[k]))

\* The loop body for record k: the partition pushed, or how the loop ends.
ReadRecord(b, records, k) ==
    LET Convert(fx) == IF ~IsOk(fx) THEN fx ELSE PartitionFromCsv(fx.val.part)
        Body(de) == IF ~IsOk(de) THEN de
                    ELSE Convert(fix_offset(b, de.val, OffsetAfter(b, records, k - 1)))
    IN  Body(DeserializeCsvRecord(b, records[k]))

\* The loop followed by no validation (lib.rs 184 left out)
ReadRecords_Unvalidated(b, records) ==
    LET outs == [k \in 1..Len(records) |-> ReadRecord(b, records, k)]
        failing == {k \in 1..Len(records) : ~IsOk(outs[k])}
    IN  IF failing # {} THEN outs[First(failing)]
        ELSE Ok([k \in 1..Len(records) |-> outs[k].val])

\* The loop `for record in reader.deserialize()`: it ends at the first record
\* that fails; otherwise the table is validated.
ReadRecords(b, records) ==
    LET Finish(v, partitions) == IF IsOk(v) THEN Ok(partitions) ELSE v
        Loop(outs) ==
            LET failing == {k \in 1..Len(records) : ~IsOk(outs[k])}
                partitions == [k \in 1..Len(records) |-> outs[k].val]
            IN  IF failing # {} THEN outs[First(failing)]
                ELSE Finish(validate(b, partitions), partitions)
    IN  Loop([k \in 1..Len(records) |-> ReadRecord(b, records, k)])

try_from_str(b, string) == ReadRecords(b, CsvRecords(string))

---------------------------------------------------------------------------
(* PartitionTable::try_from *)

\* try_from with the two magic bytes compared in the wrong order
try_from_SwappedMagic(b, data) ==
    IF Len(data) < 2 THEN Panic
    ELSE IF SubSeq(data, 1, 2) = <<80, 170>> THEN try_from_bytes(b, data).out
    ELSE IF ~IsUtf8(data) THEN Err(FromUtf8Error)
    ELSE try_from_str(b, data)

\* input[..2] aborts (slice index out of range) on an input of fewer than
\* two bytes.
try_from(b, data) ==
    IF Len(data) < 2 THEN Panic
    ELSE IF SubSeq(data, 1, 2) = <<170, 80>> THEN try_from_bytes(b, data).out
    ELSE IF ~IsUtf8(data) THEN Err(FromUtf8Error)
    ELSE try_from_str(b, data)

---------------------------------------------------------------------------
(* The inputs of the model *)

\* Bounds
MaxParts == 2      \* partitions in a table the caller builds
MaxRecords == 3    \* 32-byte records in a buffer the caller hands in
MaxDelta == 1      \* a changed byte is the old one plus 1..MaxDelta (mod 256)

N_factory == <<102, 97, 99, 116, 111, 114, 121>>  \* "factory"
N_nvs == <<110, 118, 115>>  \* "nvs"
N_otadata == <<111, 116, 97, 100, 97, 116, 97>>  \* "otadata"
N_ota_0 == <<111, 116, 97, 95, 48>>  \* "ota_0"
N_ota_1 == <<111, 116, 97, 95, 49>>  \* "ota_1"
N_storage == <<115, 116, 111, 114, 97, 103, 101>>  \* "storage"
N_x == <<120>>  \* "x"
N_big == <<98, 105, 103>>  \* "big"

P_factory == Partition(N_factory, TypeApp, SubApp(Factory), U32(65536), U32(1048576), 0)
P_nvs == Partition(N_nvs, TypeData, SubData(2), U32(36864), U32(24576), ENCRYPTED)
P_otadata == Partition(N_otadata, TypeData, SubData(Ota), U32(61440), U32(8192), 0)
P_ota_0 == Partition(N_ota_0, TypeApp, SubApp(16), U32(1114112), U32(1048576), 0)
\* overlaps factory and ota_0
P_ota_1 == Partition(N_ota_1, TypeApp, SubApp(17), U32(1048576), U32(131072), 0)
P_storage == Partition(N_storage, TypeCustom(64), SubCustom(1), U32(2162692), U32(4096), READONLY)
\* type App with a subtype that is no AppType
P_x == Partition(N_x, TypeApp, SubCustom(64), U32(3145728), U32(65536), 0)
\* offset 0xFFFFF000, size 0x2000: offset + size exceeds 2^32 - 1
P_big == Partition(N_big, TypeCustom(65), SubCustom(0), [hi |-> 65535, lo |-> 61440], U32(8192), 0)

\* The last partition has type Custom(0xFF) and is named "s"
Pool ==
    <<P_factory, P_nvs, P_otadata, P_ota_0, P_ota_1, P_storage, P_x, P_big,
      Partition(<<115>>, TypeCustom(255), SubCustom(0), U32(2097152), U32(4096), 0)>>

SeqsUpTo(S, n) == UNION {[1..k -> S] : k \in 0..n}

\* The partitions of the pool at the indices I, in pool order
Pick(I) ==
    LET Nth(k) == CHOOSE i \in I : Cardinality({j \in I : j <= i}) = k
    IN  [k \in 1..Cardinality(I) |-> Pool[Nth(k)]]

\* The most partitions an image has room for beside the checksum record.
MaxEncodable == (MAX_PARTITION_LENGTH - 32) \div PARTITION_SIZE

\* The tables the caller builds: up to MaxParts partitions of the pool, one
\* table that fills an image and one with a partition more than that.
Tables ==
    {Pick(I) : I \in {J \in SUBSET (1..Len(Pool)) : Cardinality(J) <= MaxParts}}
    \cup {[i \in 1..n |-> P_factory] : n \in {MaxEncodable, MaxEncodable + 1}}

\* The tables whose images get a byte changed
FlipTables == {<<P_factory>>, <<P_factory, P_nvs>>, <<P_storage, P_ota_0>>}

\* nvs,data,nvs,,0x6000\nfactory,app,factory,,1M\n
Text_auto ==
    <<110, 118, 115, 44, 100, 97, 116, 97, 44, 110, 118, 115, 44, 44, 48, 120, 54, 48, 48, 48, 10, 102, 97, 99, 116, 111, 114, 121, 44, 97, 112, 112, 44, 102, 97, 99, 116, 111, 114, 121, 44, 44, 49, 77, 10>>
\* # t\nfactory, app, factory, 0x10000, 1M, encrypted\n
Text_spaced ==
    <<35, 32, 116, 10, 102, 97, 99, 116, 111, 114, 121, 44, 32, 97, 112, 112, 44, 32, 102, 97, 99, 116, 111, 114, 121, 44, 32, 48, 120, 49, 48, 48, 48, 48, 44, 32, 49, 77, 44, 32, 101, 110, 99, 114, 121, 112, 116, 101, 100, 10>>
\* nvs,data,nvs,0x9000,0x6000\n
Text_noapp ==
    <<110, 118, 115, 44, 100, 97, 116, 97, 44, 110, 118, 115, 44, 48, 120, 57, 48, 48, 48, 44, 48, 120, 54, 48, 48, 48, 10>>
\* x,app,0x40,0x10000,0x1000\n
Text_badsub ==
    <<120, 44, 97, 112, 112, 44, 48, 120, 52, 48, 44, 48, 120, 49, 48, 48, 48, 48, 44, 48, 120, 49, 48, 48, 48, 10>>
\* x,foo,factory,,1\n
Text_badtype ==
    <<120, 44, 102, 111, 111, 44, 102, 97, 99, 116, 111, 114, 121, 44, 44, 49, 10>>

\* Texts whose rows leave the offset to the decoder after a row that moves
\* the cursor
OffsetTexts ==
    {   \* factory,app,factory,0x10000,1M\nnvs,data,nvs,,0x6000\nphy,data,phy,,0x1000\n
        <<102, 97, 99, 116, 111, 114, 121, 44, 97, 112, 112, 44, 102, 97, 99, 116, 111, 114, 121, 44, 48, 120, 49, 48, 48, 48, 48, 44, 49, 77, 10, 110, 118, 115, 44, 100, 97, 116, 97, 44, 110, 118, 115, 44, 44, 48, 120, 54, 48, 48, 48, 10, 112, 104, 121, 44, 100, 97, 116, 97, 44, 112, 104, 121, 44, 44, 48, 120, 49, 48, 48, 48, 10>>,
        \* a,data,nvs,0xfffff000,0x2000\nfactory,app,factory,,1M\n
        \* (the first row ends at 0x100001000)
        <<97, 44, 100, 97, 116, 97, 44, 110, 118, 115, 44, 48, 120, 102, 102, 102, 102, 102, 48, 48, 48, 44, 48, 120, 50, 48, 48, 48, 10, 102, 97, 99, 116, 111, 114, 121, 44, 97, 112, 112, 44, 102, 97, 99, 116, 111, 114, 121, 44, 44, 49, 77, 10>>,
        \* nvs,data,nvs,,0x6004\nphy,data,phy,,0x1000\nfactory,app,factory,,1M\n
        \* (the first row ends at 0xF004)
        <<110, 118, 115, 44, 100, 97, 116, 97, 44, 110, 118, 115, 44, 44, 48, 120, 54, 48, 48, 52, 10, 112, 104, 121, 44, 100, 97, 116, 97, 44, 112, 104, 121, 44, 44, 48, 120, 49, 48, 48, 48, 10, 102, 97, 99, 116, 111, 114, 121, 44, 97, 112, 112, 44, 102, 97, 99, 116, 111, 114, 121, 44, 44, 49, 77, 10>>}

\* Texts whose type, subtype and flags fields take the forms the field
\* deserialisers tell apart
FieldTexts ==
    {
        \* factory,app,factory,0x10000,1M,readonly\n
        <<102, 97, 99, 116, 111, 114, 121, 44, 97, 112, 112, 44, 102, 97, 99, 116, 111, 114, 121, 44, 48, 120, 49, 48, 48, 48, 48, 44, 49, 77, 44, 114, 101, 97, 100, 111, 110, 108, 121, 10>>,
        \* factory,app,factory,0x10000,1M,encrypted:readonly\n
        <<102, 97, 99, 116, 111, 114, 121, 44, 97, 112, 112, 44, 102, 97, 99, 116, 111, 114, 121, 44, 48, 120, 49, 48, 48, 48, 48, 44, 49, 77, 44, 101, 110, 99, 114, 121, 112, 116, 101, 100, 58, 114, 101, 97, 100, 111, 110, 108, 121, 10>>,
        \* factory,app,factory,0x10000,1M,foo\n
        <<102, 97, 99, 116, 111, 114, 121, 44, 97, 112, 112, 44, 102, 97, 99, 116, 111, 114, 121, 44, 48, 120, 49, 48, 48, 48, 48, 44, 49, 77, 44, 102, 111, 111, 10>>,
        \* f,0,0x10,0x10000,1M\nd,1,factory,0x200000,0x2000\n
        \* (type codes 0 and 1; a number in an app row, an AppType name in a data row)
        <<102, 44, 48, 44, 48, 120, 49, 48, 44, 48, 120, 49, 48, 48, 48, 48, 44, 49, 77, 10, 100, 44, 49, 44, 102, 97, 99, 116, 111, 114, 121, 44, 48, 120, 50, 48, 48, 48, 48, 48, 44, 48, 120, 50, 48, 48, 48, 10>>,
        \* factory,app,ota,0x10000,1M\n
        \* (a DataType name in an app row)
        <<102, 97, 99, 116, 111, 114, 121, 44, 97, 112, 112, 44, 111, 116, 97, 44, 48, 120, 49, 48, 48, 48, 48, 44, 49, 77, 10>>,
        \* factory,app,factory,0x10000,1M\ns,0xff,0,0x200000,0x1000\n
        \* (type code 0xFF)
        <<102, 97, 99, 116, 111, 114, 121, 44, 97, 112, 112, 44, 102, 97, 99, 116, 111, 114, 121, 44, 48, 120, 49, 48, 48, 48, 48, 44, 49, 77, 10, 115, 44, 48, 120, 102, 102, 44, 48, 44, 48, 120, 50, 48, 48, 48, 48, 48, 44, 48, 120, 49, 48, 48, 48, 10>>,
        \* factory,app,factory,0x10000,1M\ns,0x40,factory,0x200000,0x1000\nt,0x41,7,0x300000,0x1000\n
        \* (custom rows with an AppType name and with a number)
        <<102, 97, 99, 116, 111, 114, 121, 44, 97, 112, 112, 44, 102, 97, 99, 116, 111, 114, 121, 44, 48, 120, 49, 48, 48, 48, 48, 44, 49, 77, 10, 115, 44, 48, 120, 52, 48, 44, 102, 97, 99, 116, 111, 114, 121, 44, 48, 120, 50, 48, 48, 48, 48, 48, 44, 48, 120, 49, 48, 48, 48, 10, 116, 44, 48, 120, 52, 49, 44, 55, 44, 48, 120, 51, 48, 48, 48, 48, 48, 44, 48, 120, 49, 48, 48, 48, 10>>,
        \* factory,app,factory,0x10000,1M\nd,data,test,0x200000,0x1000\n
        \* (subtype test = 0x20 is no DataType)
        <<102, 97, 99, 116, 111, 114, 121, 44, 97, 112, 112, 44, 102, 97, 99, 116, 111, 114, 121, 44, 48, 120, 49, 48, 48, 48, 48, 44, 49, 77, 10, 100, 44, 100, 97, 116, 97, 44, 116, 101, 115, 116, 44, 48, 120, 50, 48, 48, 48, 48, 48, 44, 48, 120, 49, 48, 48, 48, 10>>}

RawTexts ==
    {Text_auto, Text_spaced, Text_noapp, Text_badsub, Text_badtype,
     <<>>, <<97>>, <<170>>, <<170, 80>>, <<255, 254, 44>>, <<97, 195>>}
    \cup OffsetTexts \cup FieldTexts

\* Buffers the caller hands in, built record by record from a few kinds of
\* record: two partition records, a checksum record with the digest of the
\* partition records before it ("sum") or with another digest ("badsum"),
\* the end marker, a record without the magic ("zero"), and a partition
\* record of type App whose subtype byte is no AppType ("badsub").
RecordKinds == {"partA", "partB", "sum", "badsum", "end", "zero", "badsub"}

RawRecord(k, ctx) ==
    CASE k = "partA" -> write_bin(P_factory)
      [] k = "partB" -> write_bin(P_nvs)
      [] k = "sum" -> MD5_PART_MAGIC_BYTES \o Md5(ctx)
      [] k = "badsum" -> MD5_PART_MAGIC_BYTES \o [Md5(ctx) EXCEPT ![1] = (@ + 1) % 256]
      [] k = "end" -> END_MARKER
      [] k = "zero" -> Repeat(0, 32)
      [] k = "badsub" -> [write_bin(P_factory) EXCEPT ![4] = 1]

RECURSIVE BuildRaw(_, _, _)
BuildRaw(ks, i, ctx) ==
    IF i > Len(ks) THEN <<>>
    ELSE LET rec == RawRecord(ks[i], ctx)
         IN  rec \o BuildRaw(ks, i + 1,
                             IF ks[i] \in {"partA", "partB", "badsub"}
                             THEN ctx \o rec ELSE ctx)

AlignedBuffers == {BuildRaw(ks, 1, <<>>) : ks \in SeqsUpTo(RecordKinds, MaxRecords)}

\* Buffers whose length is no multiple of 32
OddBuffers ==
    {BuildRaw(ks, 1, <<>>) \o Repeat(255, x) :
        ks \in SeqsUpTo(RecordKinds, 1), x \in {1, 31}}
    \cup LET image == to_bin(<<P_factory>>).val
         IN  {image \o <<255>>, SubSeq(image, 1, Len(image) - 1)}

RawInputs == AlignedBuffers \cup OddBuffers \cup RawTexts

---------------------------------------------------------------------------
(* The state machine: a caller that builds a table or holds a buffer, and    *)
(* calls the library on it.                                                 *)

\* What the last call returned.  parsed and compared are set by
\* try_from_bytes.  The bytes to_bin and to_csv return are kept in `input`,
\* and `out` holds only that they returned.
Call(op, out) == [op |-> op, out |-> out, parsed |-> 0, compared |-> 0]

NoCall == Call("none", OkUnit)

Init ==
    /\ build \in {"debug", "release"}
    /\ \/ table \in Tables /\ input = <<>> /\ origin = "none"
       \/ table = <<>> /\ input \in RawInputs /\ origin = "raw"
    /\ result = NoCall

\* table.validate()
Validate ==
    /\ result' = Call("validate", validate(build, table))
    /\ UNCHANGED <<build, table, input, origin>>

\* table.to_bin(): the caller keeps the image
ToBin ==
    LET r == to_bin(table)
    IN  /\ result' = Call("to_bin", IF IsOk(r) THEN OkUnit ELSE r)
        /\ IF IsOk(r) THEN input' = r.val /\ origin' = "to_bin"
           ELSE UNCHANGED <<input, origin>>
        /\ UNCHANGED <<build, table>>

\* table.to_csv(): the caller keeps the text
ToCsv ==
    LET r == to_csv(table)
    IN  /\ result' = Call("to_csv", OkUnit)
        /\ input' = r.val /\ origin' = "to_csv"
        /\ UNCHANGED <<build, table>>

\* PartitionTable::try_from_bytes(input)
TryFromBytes ==
    LET r == try_from_bytes(build, input)
    IN  /\ result' = [op |-> "try_from_bytes", out |-> r.out,
                      parsed |-> r.parsed, compared |-> r.compared]
        /\ UNCHANGED <<build, table, input, origin>>

\* PartitionTable::try_from_str(input): the input is a String
TryFromStr ==
    /\ IsUtf8(input) = TRUE
    /\ result' = Call("try_from_str", try_from_str(build, input))
    /\ UNCHANGED <<build, table, input, origin>>

\* PartitionTable::try_from(input)
TryFrom ==
    /\ result' = Call("try_from", try_from(build, input))
    /\ UNCHANGED <<build, table, input, origin>>

Next ==
    \/ Validate
    \/ ToBin
    \/ ToCsv
    \/ TryFromBytes
    \/ TryFromStr
    \/ TryFrom

Spec == Init /\ [][Next]_vars

---------------------------------------------------------------------------
(* Corruption in storage: the caller encodes a table, one byte of a         *)
(* partition record of the image changes, and the image is decoded.         *)

InitFlip ==
    /\ build \in {"debug", "release"}
    /\ table \in FlipTables
    /\ input = <<>>
    /\ origin = "none"
    /\ result = NoCall

\* Byte i of the image becomes its value plus d (mod 256); the checksum
\* record is left as it is.
Flip(i, d) ==
    /\ origin = "to_bin"
    /\ input' = [input EXCEPT ![i] = (@ + d) % 256]
    /\ origin' = "flip"
    /\ result' = NoCall
    /\ UNCHANGED <<build, table>>

NextFlip ==
    \/ ToBin
    \/ \E i \in 1..(Len(table) * PARTITION_SIZE), d \in 1..MaxDelta : Flip(i, d)
    \/ TryFromBytes

SpecFlip == InitFlip /\ [][NextFlip]_vars

---------------------------------------------------------------------------
(* The validator on its own: the caller builds a table of up to MaxRows     *)
(* partitions, in any order and with repeats, and calls validate().         *)

MaxRows == 3

\* The partitions the caller draws from.  Ranges are [offset, offset + size).
VPool ==
    {   \* "factory" app/factory [0x10000, 0x110000)
        P_factory,
        \* "x" app/factory [0x200000, 0x1200000): a second factory, of exactly 16 MiB
        Partition(N_x, TypeApp, SubApp(Factory), U32(2097152), U32(16777216), 0),
        \* "ota_0" app/ota_0 [0x9000, 0xA000): offset no multiple of 0x10000
        Partition(N_ota_0, TypeApp, SubApp(16), U32(36864), U32(4096), 0),
        \* "ota_1" app/ota_1 [0x2000000, 0x3000001): one byte more than 16 MiB
        Partition(N_ota_1, TypeApp, SubApp(17), U32(33554432), U32(16777217), 0),
        \* "otadata" data/ota [0xD000, 0xF000)
        Partition(N_otadata, TypeData, SubData(Ota), U32(53248), U32(8192), 0),
        \* "big" data/ota [0xB000, 0xC000): a second otadata, of size 0x1000
        Partition(N_big, TypeData, SubData(Ota), U32(45056), U32(4096), 0),
        \* "nvs" data/nvs [0xC004, 0xC014): offset no multiple of 0x1000
        Partition(N_nvs, TypeData, SubData(2), U32(49156), U32(16), 0),
        \* "storage" custom 0x40 [0x7001, 0x8001): a custom type at an odd offset
        Partition(N_storage, TypeCustom(64), SubCustom(1), U32(28673), U32(4096), 0),
        \* "factory" data/nvs [0x6000, 0x7000): the name of the factory partition
        Partition(N_factory, TypeData, SubData(2), U32(24576), U32(4096), 0),
        \* "phy" data/phy [0x18000, 0x20000): inside the factory partition
        Partition(<<112, 104, 121>>, TypeData, SubData(1), U32(98304), U32(32768), 0),
        \* "fat" data/fat [0x110000, 0x2110000): starts where the factory
        \* partition ends, 32 MiB long
        Partition(<<102, 97, 116>>, TypeData, SubData(129), U32(1114112), U32(33554432), 0),
        \* "big" custom 0x41 at 0xFFFFF000, size 0x2000: offset + size exceeds 2^32 - 1
        P_big,
        \* "top" custom 0x42 [0xFFFFF800, 0xFFFFFC00): inside the range of "big"
        Partition(<<116, 111, 112>>, TypeCustom(66), SubCustom(0),
                  [hi |-> 65535, lo |-> 63488], U32(1024), 0) }

ValidateTables == SeqsUpTo(VPool, MaxRows)

InitValidate ==
    /\ build \in {"debug", "release"}
    /\ table \in ValidateTables
    /\ input = <<>>
    /\ origin = "none"
    /\ result = NoCall

SpecValidate == InitValidate /\ [][Validate]_vars

---------------------------------------------------------------------------
(* Properties *)

Decoders == {"try_from", "try_from_bytes", "try_from_str"}

IsInvalidChecksum(r) == IsErr(r) /\ r.err.e = "InvalidChecksum"

\* The k-th 32-byte record of the buffer the caller holds
Record(k) == SubSeq(input, 32 * (k - 1) + 1, 32 * k)

IsChecksumRecord(r) == SubSeq(r, 1, 16) = <<235, 235>> \o [i \in 1..14 |-> 255]
IsEndRecord(r) == \A i \in 1..32 : r[i] = 255
IsPartitionRecord(r) == ~IsChecksumRecord(r) /\ ~IsEndRecord(r)

\* The raw bytes of the partition records before record k, in order
RecordsBefore(k) ==
    LET idx == SelectSeq([j \in 1..(k - 1) |-> j], LAMBDA j : IsPartitionRecord(Record(j)))
    IN  Concat([i \in 1..Len(idx) |-> Record(idx[i])])

\* The buffer is whole records, none of them the end marker
NoEndRecord ==
    /\ Len(input) % 32 = 0
    /\ \A k \in 1..(Len(input) \div 32) : ~IsEndRecord(Record(k))

\* Every record of the buffer lets the scan go on: a partition record
\* deserialises and converts, a checksum record holds the digest of the
\* partition records before it.
EveryRecordPasses ==
    \A k \in 1..(Len(input) \div 32) :
        IF IsChecksumRecord(Record(k))
        THEN SubSeq(Record(k), 17, 32) = Md5(RecordsBefore(k))
        ELSE IsOk(ReadPartition(Record(k)))

C2_BinaryRoundTrip ==
    (origin = "to_bin" /\ result.op = "try_from_bytes" /\ IsOk(validate(build, table)))
        => result.out = Ok(table)

\* C2: the image of a table that validates (type App, subtype Custom(0x40))
\* makes try_from_bytes abort.
C2_ImageAborts ==
    /\ origin = "to_bin" /\ result.op = "try_from_bytes"
    /\ table = <<P_x>> /\ IsOk(validate(build, table))
    /\ IsPanic(result.out)

\* C3, as stated: for every table T that validate() accepts,
\* try_from_str(to_csv(T)) returns a table equal to T in every field and in
\* row order.
C3_TextRoundTrip ==
    (origin = "to_csv" /\ result.op = "try_from_str" /\ IsOk(validate(build, table)))
        => result.out = Ok(table)

\* C3: the text of a table that validates (type App, subtype Custom(0x40))
\* makes try_from_str abort.
C3_TextAborts ==
    /\ origin = "to_csv" /\ result.op = "try_from_str"
    /\ table = <<P_x>> /\ IsOk(validate(build, table))
    /\ IsPanic(result.out)

\* C4, as stated: try_from returns a table or an error for every input,
\* the empty and the one-byte input included; it never aborts.
C4_TryFromNeverAborts ==
    result.op = "try_from" => ~IsPanic(result.out)

\* C4: try_from on the empty input aborts.
C4_EmptyInputAborts ==
    result.op = "try_from" /\ input = <<>> /\ IsPanic(result.out)

\* C5: for an input of at least two bytes, try_from gives the result of
\* try_from_bytes when the input starts with AA 50, otherwise the result of
\* try_from_str on the input read as UTF-8, and an error when the input is
\* not UTF-8.
C5_FormatDetection ==
    (result.op = "try_from" /\ Len(input) >= 2)
        => IF input[1] = 170 /\ input[2] = 80
           THEN result.out = try_from_bytes(build, input).out
           ELSE IF IsUtf8(input)
           THEN result.out = try_from_str(build, input)
           ELSE IsErr(result.out)

\* C5: try_from has decoded a binary image into a table.
C5_BinaryDetected ==
    /\ result.op = "try_from" /\ Len(input) >= 2
    /\ input[1] = 170 /\ input[2] = 80
    /\ IsOk(result.out)

\* C6: a buffer whose length is no multiple of 32 fails try_from_bytes with
\* LengthNotMultipleOf32, before any record is parsed or any checksum is
\* compared.
C6_LengthChecked ==
    (result.op = "try_from_bytes" /\ Len(input) % 32 # 0)
        => /\ result.out = Err(LengthNotMultipleOf32)
           /\ result.parsed = 0
           /\ result.compared = 0

\* C6: try_from_bytes was called on a buffer of a whole partition record and
\* some more bytes.
C6_OddLengthSeen ==
    /\ result.op = "try_from_bytes"
    /\ Len(input) % 32 # 0 /\ Len(input) > 32
    /\ input[1] = 170 /\ input[2] = 80

\* C7, as stated: a buffer of whole records, none of them all 0xFF, fails
\* try_from_bytes with NoEndMarker.
C7_NoEndMarkerError ==
    (result.op = "try_from_bytes" /\ NoEndRecord) => result.out = Err(NoEndMarker)

\* C7, amended: try_from_bytes returns no table for a buffer of whole
\* records without an end marker, and its result is NoEndMarker exactly when
\* every record lets the scan go on; otherwise the scan ends at the first
\* record that does not.
C7_NoEndMarkerNoTable ==
    (result.op = "try_from_bytes" /\ NoEndRecord)
        => /\ ~IsOk(result.out)
           /\ (result.out = Err(NoEndMarker)) <=> EveryRecordPasses

\* C7: try_from_bytes went through a partition record and a checksum record
\* and reached the end of a buffer without an end marker.
C7_BufferExhausted ==
    /\ result.op = "try_from_bytes" /\ NoEndRecord
    /\ result.parsed >= 1 /\ result.compared >= 1
    /\ result.out = Err(NoEndMarker)

\* C8: for every checksum record try_from_bytes meets: when its last 16
\* bytes are the MD5 of the partition records before it the scan goes on,
\* otherwise the result is InvalidChecksum with expected the stored digest
\* and computed the calculated one; and InvalidChecksum is returned at a
\* checksum record only.
C8_ChecksumCompared ==
    (result.op = "try_from_bytes" /\ Len(input) % 32 = 0)
        => LET met == result.parsed + result.compared
           IN  /\ \A k \in 1..met :
                     IsChecksumRecord(Record(k))
                         => IF SubSeq(Record(k), 17, 32) = Md5(RecordsBefore(k))
                            THEN ~(k = met /\ IsInvalidChecksum(result.out))
                            ELSE /\ k = met
                                 /\ result.out = Err(InvalidChecksum(SubSeq(Record(k), 17, 32),
                                                                     Md5(RecordsBefore(k))))
               /\ IsInvalidChecksum(result.out)
                     => met >= 1 /\ IsChecksumRecord(Record(met))

\* C8: try_from_bytes passed a checksum record that matches and ended at one
\* that does not.
C8_SecondChecksumFails ==
    /\ result.op = "try_from_bytes"
    /\ result.parsed >= 1 /\ result.compared = 2
    /\ IsInvalidChecksum(result.out)

\* C9, as stated: after one byte of a partition record of an image from
\* to_bin has changed, try_from_bytes fails with InvalidChecksum.
C9_FlipIsInvalidChecksum ==
    (origin = "flip" /\ result.op = "try_from_bytes") => IsInvalidChecksum(result.out)

\* C9, amended: after one byte of a partition record of an image from to_bin
\* has changed, try_from_bytes returns no table; its result is
\* InvalidChecksum, with expected the digest of the records as written and
\* computed the digest of the records as they are, exactly when every
\* partition record of the changed image still deserialises and converts.
C9_FlipNeverDecodes ==
    (origin = "flip" /\ result.op = "try_from_bytes")
        => /\ ~IsOk(result.out)
           /\ (\A k \in 1..Len(table) : IsOk(ReadPartition(Record(k))))
                 <=> IsInvalidChecksum(result.out)
           /\ IsInvalidChecksum(result.out)
                 => /\ result.out.err.expected = SubSeq(Record(Len(table) + 1), 17, 32)
                    /\ result.out.err.computed = Md5(SubSeq(input, 1, 32 * Len(table)))
                    /\ result.out.err.expected # result.out.err.computed

\* C9: a byte of the second of two partition records changed and
\* try_from_bytes returned InvalidChecksum.
C9_FlipDetected ==
    /\ origin = "flip" /\ result.op = "try_from_bytes"
    /\ Len(table) = 2
    /\ Record(1) = write_bin(table[1])
    /\ IsInvalidChecksum(result.out)

\* C10: for a table of n partitions with n * 32 + 32 <= 0xC00, to_bin
\* returns 0xC00 bytes: the n partition records in table order, the checksum
\* record (the marker, then the MD5 of those n records), then 0xFF to the
\* end.
C10_ImageLayout ==
    (result.op = "to_bin" /\ Len(table) * 32 + 32 <= 3072)
        => LET n == Len(table)
           IN  /\ IsOk(result.out)
               /\ Len(input) = 3072
               /\ \A k \in 1..n : Record(k) = write_bin(table[k])
               /\ IsChecksumRecord(Record(n + 1))
               /\ SubSeq(Record(n + 1), 17, 32) = Md5(SubSeq(input, 1, 32 * n))
               /\ \A i \in (32 * n + 33)..3072 : input[i] = 255

\* C10: to_bin returned the image of a table that fills it (95 partitions).
C10_FullImage ==
    /\ result.op = "to_bin" /\ IsOk(result.out)
    /\ Len(table) * 32 + 32 = 3072

\* C11, as stated: for a table of n partitions with n * 32 + 32 > 0xC00,
\* to_bin returns an error and produces no image.
C11_TooManyIsError ==
    (result.op = "to_bin" /\ Len(table) * 32 + 32 > 3072)
        => IsErr(result.out) /\ origin # "to_bin"

\* C11: to_bin on a table of 96 partitions aborts.
C11_TooManyAborts ==
    /\ result.op = "to_bin" /\ Len(table) = 96
    /\ IsPanic(result.out) /\ origin # "to_bin"

---------------------------------------------------------------------------
(* The nine rules of the validator, over the positions of the table the     *)
(* caller holds.  A u32 [hi, lo] is compared half by half.                  *)

Rows == 1..Len(table)
AppRows == {i \in Rows : table[i].ty.tag = "App"}
DataRows == {i \in Rows : table[i].ty.tag = "Data"}
FactoryRows == {i \in AppRows : table[i].subtype = [tag |-> "App", v |-> 0]}
OtadataRows == {i \in DataRows : table[i].subtype = [tag |-> "Data", v |-> 0]}

\* App rows whose offset is no multiple of 0x10000, data rows whose offset
\* is no multiple of 0x1000
UnalignedAppRows == {i \in AppRows : table[i].offset.lo # 0}
UnalignedDataRows == {i \in DataRows : table[i].offset.lo % 4096 # 0}
\* App rows larger than 0x1000000 = 256 * 2^16
LargeAppRows ==
    {i \in AppRows : table[i].size.hi > 256 \/ (table[i].size.hi = 256 /\ table[i].size.lo > 0)}
\* Data/Ota rows whose size is not 0x2000
OddOtadataRows == {i \in OtadataRows : table[i].size # [hi |-> 0, lo |-> 8192]}

\* offset + size of row i as an unbounded number: [top, hi, lo] stands for
\* top * 2^32 + hi * 2^16 + lo
RowEnd(i) ==
    LET lo == table[i].offset.lo + table[i].size.lo
        hi == table[i].offset.hi + table[i].size.hi + (lo \div 65536)
    IN  [top |-> hi \div 65536, hi |-> hi % 65536, lo |-> lo % 65536]
RowStart(i) == [top |-> 0, hi |-> table[i].offset.hi, lo |-> table[i].offset.lo]
Below(x, y) ==
    \/ x.top < y.top
    \/ x.top = y.top /\ x.hi < y.hi
    \/ x.top = y.top /\ x.hi = y.hi /\ x.lo < y.lo

\* The ranges [offset, offset + size) of rows i and j have a byte in common
Intersect(i, j) ==
    /\ Below(RowStart(i), RowEnd(i)) /\ Below(RowStart(j), RowEnd(j))
    /\ Below(RowStart(i), RowEnd(j)) /\ Below(RowStart(j), RowEnd(i))

SameNamePairs == {p \in Rows \X Rows : p[1] # p[2] /\ table[p[1]].name = table[p[2]].name}
IntersectingPairs == {p \in Rows \X Rows : p[1] # p[2] /\ Intersect(p[1], p[2])}

Rule1 == AppRows # {}
Rule2 == Cardinality(FactoryRows) <= 1
Rule3 == Cardinality(OtadataRows) <= 1
Rule4 == UnalignedAppRows = {}
Rule5 == UnalignedDataRows = {}
Rule6 == LargeAppRows = {}
Rule7 == OddOtadataRows = {}
Rule8 == SameNamePairs = {}
Rule9 == IntersectingPairs = {}

\* No row's offset + size exceeds 2^32 - 1
NoRowWraps == \A i \in Rows : RowEnd(i).top = 0

Validated == result.op = "validate"
ErrorIs(e) == IsErr(result.out) /\ result.out.err.e = e

\* C12: validate returns NoAppPartition for every table without a partition
\* of type App, the empty table included, whatever other rules it violates.
C12_NoAppFirst ==
    (Validated /\ ~Rule1) => result.out = Err(NoAppPartition)

\* C12: validate was called on a table without an app partition that has
\* two otadata partitions, one of them of the wrong size.
C12_NoAppAmongOthers ==
    /\ Validated /\ ~Rule1 /\ ~Rule3 /\ ~Rule7
    /\ result.out = Err(NoAppPartition)

\* C13: validate never returns Ok for a table with more than one App/Factory
\* partition or more than one Data/Ota partition; more than one App/Factory
\* gives MultipleFactoryPartitions, and otherwise, in a table with an App
\* partition, more than one Data/Ota gives MultipleOtadataPartitions; a
\* table with at most one of each gets neither error.
C13_Singletons ==
    Validated
        => /\ (~Rule2 \/ ~Rule3) => ~IsOk(result.out)
           /\ ~Rule2 => result.out = Err(MultipleFactoryPartitions)
           /\ (Rule1 /\ Rule2 /\ ~Rule3) => result.out = Err(MultipleOtadataPartitions)
           /\ Rule2 => ~ErrorIs("MultipleFactoryPartitions")
           /\ Rule3 => ~ErrorIs("MultipleOtadataPartitions")

\* C13: validate was called on a table with one App/Factory and two Data/Ota
\* partitions and returned MultipleOtadataPartitions.
C13_TwoOtadata ==
    /\ Validated
    /\ Cardinality(FactoryRows) = 1 /\ Cardinality(OtadataRows) = 2
    /\ result.out = Err(MultipleOtadataPartitions)

\* The numbers of the rules the table violates
Violated ==
    LET holds == <<Rule1, Rule2, Rule3, Rule4, Rule5, Rule6, Rule7, Rule8, Rule9>>
    IN  {k \in 1..9 : ~holds[k]}

\* C14: validate never returns Ok for a table with an App partition whose
\* offset is no multiple of 0x10000 or a Data partition whose offset is no
\* multiple of 0x1000; when no other rule is violated the error is
\* UnalignedPartition; and UnalignedPartition is returned for such a table
\* only, so a partition of a Custom type is accepted at any offset.
C14_Alignment ==
    Validated
        => /\ (~Rule4 \/ ~Rule5) => ~IsOk(result.out)
           /\ (Violated # {} /\ Violated \subseteq {4, 5})
                 => result.out = Err(UnalignedPartition)
           /\ ErrorIs("UnalignedPartition") => (~Rule4 \/ ~Rule5)

\* C14: validate returned UnalignedPartition for a table whose only fault is
\* a Data partition at an offset that is no multiple of 0x1000, beside a
\* Custom partition at an odd offset.
C14_UnalignedData ==
    /\ Validated /\ Violated = {5}
    /\ \E i \in Rows : table[i].ty.tag = "Custom" /\ table[i].offset.lo % 2 = 1
    /\ result.out = Err(UnalignedPartition)

\* C15: validate never returns Ok for a table with an App partition larger
\* than 0x1000000; when no other rule is violated the error is
\* PartitionTooLarge with the name of such a partition; and
\* PartitionTooLarge always names an App partition larger than 0x1000000, so
\* an App partition of exactly 0x1000000 and Data and Custom partitions of
\* any size do not get it.
C15_AppSizeLimit ==
    Validated
        => /\ ~Rule6 => ~IsOk(result.out)
           /\ Violated = {6}
                 => \E i \in LargeAppRows :
                        result.out = Err([e |-> "PartitionTooLarge", name |-> table[i].name])
           /\ ErrorIs("PartitionTooLarge")
                 => \E i \in LargeAppRows : result.out.err.name = table[i].name

\* C15: validate returned PartitionTooLarge for a table whose only fault is
\* an App partition of 0x1000001 bytes, beside an App partition of exactly
\* 0x1000000 bytes.
C15_OneByteTooLarge ==
    /\ Validated /\ Violated = {6}
    /\ \E i \in AppRows : table[i].size = [hi |-> 256, lo |-> 0]
    /\ \E i \in AppRows : table[i].size = [hi |-> 256, lo |-> 1]
    /\ ErrorIs("PartitionTooLarge")

\* C16: validate never returns Ok for a table with a Data/Ota partition
\* whose size is not 0x2000; when no other rule is violated the error is
\* InvalidOtadataPartitionSize; and InvalidOtadataPartitionSize is returned
\* for such a table only, so a Data/Ota partition of 0x2000 bytes passes and
\* a table without a Data/Ota partition never gets it.
C16_OtadataSize ==
    Validated
        => /\ ~Rule7 => ~IsOk(result.out)
           /\ Violated = {7} => result.out = Err(InvalidOtadataPartitionSize)
           /\ ErrorIs("InvalidOtadataPartitionSize") => ~Rule7

\* C16: validate returned InvalidOtadataPartitionSize for a table whose only
\* fault is a Data/Ota partition of 0x1000 bytes.
C16_ShortOtadata ==
    /\ Validated /\ Violated = {7}
    /\ \E i \in OtadataRows : table[i].size = [hi |-> 0, lo |-> 4096]
    /\ result.out = Err(InvalidOtadataPartitionSize)

\* C17, as stated: validate never returns Ok for a table in which two
\* partitions at different positions have the same name, whatever their
\* other fields are (two rows equal in every field included); when no other
\* rule is violated the error is DuplicatePartitions with the shared name.
C17_UniqueNames ==
    Validated
        => /\ ~Rule8 => ~IsOk(result.out)
           /\ Violated = {8}
                 => \E p \in SameNamePairs :
                        result.out = Err([e |-> "DuplicatePartitions", name |-> table[p[1]].name])

\* C17: validate returned Ok for a table with two rows that are equal in
\* every field.
C17_EqualRowsAccepted ==
    /\ Validated
    /\ \E i, j \in Rows : i # j /\ table[i] = table[j]
    /\ IsOk(result.out)

\* C18: for a table that satisfies rules 1-8 and in which no offset + size
\* exceeds 2^32 - 1, validate returns OverlappingPartitions, naming two rows
\* that intersect, when the ranges [offset, offset + size) of two rows at
\* different positions intersect, and Ok otherwise; ranges that only touch
\* do not intersect.
C18_OverlapRule ==
    (Validated /\ Violated \subseteq {9} /\ NoRowWraps)
        => IF Rule9
           THEN result.out = OkUnit
           ELSE \E p \in IntersectingPairs :
                    result.out = Err([e |-> "OverlappingPartitions",
                                      a |-> table[p[1]].name, b |-> table[p[2]].name])

\* C18: validate returned OverlappingPartitions for a table that satisfies
\* rules 1-8, in which one row lies inside another and a third starts where
\* that one ends.
C18_OverlapBesideTouch ==
    /\ Validated /\ Violated = {9} /\ NoRowWraps
    /\ \E i, j \in Rows : RowEnd(i) = RowStart(j)
    /\ ErrorIs("OverlappingPartitions")

\* The error kind of each rule, by rule number
RuleError ==
    <<"NoAppPartition", "MultipleFactoryPartitions", "MultipleOtadataPartitions",
      "UnalignedPartition", "UnalignedPartition", "PartitionTooLarge",
      "InvalidOtadataPartitionSize", "DuplicatePartitions", "OverlappingPartitions">>

\* C19, as stated: when a table violates more than one of the nine rules,
\* validate returns the error of the lowest-numbered violated rule, wherever
\* in the table the violations are.
C19_LowestRuleFirst ==
    (Validated /\ Cardinality(Violated) > 1) => ErrorIs(RuleError[First(Violated)])

\* The rules 4-7 that row i violates
RowFaults(i) ==
    {k \in 4..7 : i \in <<UnalignedAppRows, UnalignedDataRows, LargeAppRows, OddOtadataRows>>[k - 3]}

\* What the check of the pair (i, j) gives: nothing for two rows equal in
\* every field; else the shared name; else the overlap test, on offset + size
\* reduced modulo 2^32, which aborts under overflow checks when a sum exceeds
\* 2^32 - 1.
PairOutcome(i, j) ==
    LET Wrapped(e) == [e EXCEPT !.top = 0]
        start == IF Below(RowStart(i), RowStart(j)) THEN RowStart(j) ELSE RowStart(i)
        end == IF Below(Wrapped(RowEnd(j)), Wrapped(RowEnd(i)))
               THEN Wrapped(RowEnd(j)) ELSE Wrapped(RowEnd(i))
    IN  IF table[i] = table[j] THEN "pass"
        ELSE IF table[i].name = table[j].name THEN "DuplicatePartitions"
        ELSE IF build = "debug" /\ (RowEnd(i).top > 0 \/ RowEnd(j).top > 0) THEN "abort"
        ELSE IF Below(start, end) THEN "OverlappingPartitions"
        ELSE "pass"

\* C19, amended: validate returns the outcome of the first check that does
\* not pass, the checks taken in this order: rule 1, rule 2, rule 3; then
\* row by row in table order the rules 4, 5, 6, 7 of that row; then pair by
\* pair, (i, j) in table order with i the slower index, rule 8 and then rule
\* 9 of that pair.  It returns Ok when every check passes.
C19_FirstFailingCheck ==
    Validated
        => LET faulty == {i \in Rows : RowFaults(i) # {}}
               stops == {i \in Rows : \E j \in Rows : PairOutcome(i, j) # "pass"}
               i0 == First(stops)
               j0 == First({j \in Rows : PairOutcome(i0, j) # "pass"})
           IN  IF Violated \cap {1, 2, 3} # {}
               THEN ErrorIs(RuleError[First(Violated \cap {1, 2, 3})])
               ELSE IF faulty # {}
               THEN ErrorIs(RuleError[First(RowFaults(First(faulty)))])
               ELSE IF stops = {}
               THEN result.out = OkUnit
               ELSE IF PairOutcome(i0, j0) = "abort"
               THEN IsPanic(result.out)
               ELSE /\ ErrorIs(PairOutcome(i0, j0))
                    /\ PairOutcome(i0, j0) = "DuplicatePartitions"
                          => result.out.err.name = table[i0].name
                    /\ PairOutcome(i0, j0) = "OverlappingPartitions"
                          => result.out.err.a = table[i0].name /\ result.out.err.b = table[j0].name

\* C19: validate returned InvalidOtadataPartitionSize (rule 7, violated by an
\* earlier row) for a table in which a later row violates rule 4.
C19_LaterRowLowerRule ==
    /\ Validated /\ Violated \cap {1, 2, 3} = {}
    /\ \E i, j \in Rows : i < j /\ RowFaults(i) = {7} /\ 4 \in RowFaults(j)
    /\ result.out = Err(InvalidOtadataPartitionSize)

---------------------------------------------------------------------------
(* The forward pass of offset assignment, in unbounded numbers: [top, hi,    *)
(* lo] stands for top * 2^32 + hi * 2^16 + lo.                              *)

\* x + n for 0 <= n <= 2^16
Plus(x, n) ==
    LET lo == x.lo + n
        hi == x.hi + (lo \div 65536)
    IN  [top |-> x.top + (hi \div 65536), hi |-> hi % 65536, lo |-> lo % 65536]

\* x + the u32 s
PlusU32(x, s) ==
    LET lo == x.lo + s.lo
        hi == x.hi + s.hi + (lo \div 65536)
    IN  [top |-> x.top + (hi \div 65536), hi |-> hi % 65536, lo |-> lo % 65536]

\* The least multiple of a that is >= x, for a = 4 or a = 0x10000
AlignUp(x, a) == IF x.lo % a = 0 THEN x ELSE Plus(x, a - (x.lo % a))

\* The rows of the text the caller holds, as the reader deserialises them
TextRows == [k \in 1..Len(CsvRecords(input)) |-> DeserializeCsvRecord(build, CsvRecords(input)[k])]
\* Every row deserialises and, whatever its offset, converts to a partition
AllRowsRead ==
    \A k \in 1..Len(TextRows) :
        /\ IsOk(TextRows[k])
        /\ IsOk(PartitionFromCsv([TextRows[k].val EXCEPT !.offset = Some(U32(0))]))

\* The offset the pass gives row k, and the cursor after row k
RECURSIVE CursorAfter(_)
PassOffset(k) ==
    LET row == TextRows[k].val
    IN  IF row.offset.some
        THEN [top |-> 0, hi |-> row.offset.v.hi, lo |-> row.offset.v.lo]
        ELSE AlignUp(CursorAfter(k - 1), IF row.ty.tag = "App" THEN 65536 ELSE 4)
CursorAfter(k) ==
    IF k = 0 THEN [top |-> 0, hi |-> 0, lo |-> 36864]
    ELSE PlusU32(PassOffset(k), TextRows[k].val.size)

\* C20, as stated: the offsets of the partitions try_from_str returns are
\* those of the forward pass over the rows: the cursor starts at 0x9000, a
\* row without an offset gets the least multiple of its alignment (0x10000
\* for App, 4 otherwise) that is >= the cursor, a row with an offset keeps
\* it, and the cursor becomes the row's offset + size; the pass over rows
\* that deserialise and convert does not abort.
C20_ForwardPass ==
    (result.op = "try_from_str" /\ AllRowsRead)
        => /\ ~IsPanic(result.out)
           /\ IsOk(result.out)
                 => \A k \in 1..Len(TextRows) :
                        PassOffset(k) = [top |-> 0, hi |-> result.out.val[k].offset.hi,
                                         lo |-> result.out.val[k].offset.lo]

\* C20: try_from_str returned a table in which a row without an offset was
\* placed below the end of the row before it: the cursor had passed
\* 2^32 - 1.
C20_CursorWrapped ==
    /\ result.op = "try_from_str" /\ AllRowsRead /\ IsOk(result.out)
    /\ \E k \in 1..Len(TextRows) :
          /\ ~TextRows[k].val.offset.some
          /\ CursorAfter(k - 1).top > 0
          /\ result.out.val[k].offset = U32(65536)

---------------------------------------------------------------------------
(* Auto-assigned offsets and the validator's alignment *)

\* What the loop of try_from_str pushes for row k of the text the caller holds
PushedRow(k) == ReadRecord(build, CsvRecords(input), k)

\* The rows of the text that leave their offset to the decoder
AutoRows == {k \in 1..Len(TextRows) : ~TextRows[k].val.offset.some}

\* The alignment the validator requires of a row of type ty (lib.rs 301-308)
RequiredAlignment(ty) ==
    IF ty = TypeApp THEN 65536 ELSE IF ty = TypeData THEN 4096 ELSE 1

\* C21, as stated: every offset that fix_offset gives to a row with an empty
\* offset field is a multiple of the alignment the validator requires for
\* the row's type: 0x10000 for App, 0x1000 for Data.
C21_AutoOffsetAligned ==
    (result.op = "try_from_str" /\ AllRowsRead)
        => \A k \in AutoRows :
              IsOk(PushedRow(k))
                 => PushedRow(k).val.offset.lo % RequiredAlignment(PushedRow(k).val.ty) = 0

\* C21: a Data row without an offset followed a row that ends at 0xF004: it
\* was placed at 0xF004, and the validator refused the table.
C21_DataRowMisplaced ==
    /\ result.op = "try_from_str" /\ AllRowsRead
    /\ result.out = Err(UnalignedPartition)
    /\ \E k \in AutoRows :
          /\ IsOk(PushedRow(k))
          /\ PushedRow(k).val.ty = TypeData
          /\ PushedRow(k).val.offset = [hi |-> 0, lo |-> 61444]

---------------------------------------------------------------------------
(* The flags field of a text row *)

\* The colon-separated tokens of the flags field of row k; none when the
\* field is empty or left out
FlagTokens(k) ==
    LET rec == CsvRecords(input)[k]
    IN  IF Len(rec) < 6 \/ rec[6] = <<>> THEN <<>> ELSE Split(rec[6], {COLON})

KnownTokens(k) ==
    \A i \in 1..Len(FlagTokens(k)) : FlagTokens(k)[i] \in {S_encrypted, S_readonly}

\* The flags the tokens of row k name
NamedFlags(k) ==
    (IF \E i \in 1..Len(FlagTokens(k)) : FlagTokens(k)[i] = S_encrypted THEN ENCRYPTED ELSE 0)
    + (IF \E i \in 1..Len(FlagTokens(k)) : FlagTokens(k)[i] = S_readonly THEN READONLY ELSE 0)

\* C22, as stated: a flags field whose colon-separated tokens are all
\* "encrypted" or "readonly" decodes to exactly the flags they name (none for
\* an empty field), and a field with any other token makes the text decode
\* fail with a format error.
C22_FlagsByToken ==
    (result.op = "try_from_str" /\ AllRowsRead /\ ~IsPanic(result.out))
        => /\ (\E k \in 1..Len(TextRows) : ~KnownTokens(k)) => result.out = Err(CsvError)
           /\ IsOk(result.out)
                 => \A k \in 1..Len(TextRows) :
                        KnownTokens(k) => result.out.val[k].flags = NamedFlags(k)

\* C22: try_from_str returned a table for a row whose flags field is
\* "readonly", and the partition has no flag.
C22_ReadonlyLost ==
    /\ result.op = "try_from_str" /\ IsOk(result.out)
    /\ \E k \in 1..Len(TextRows) :
          /\ FlagTokens(k) = <<S_readonly>>
          /\ result.out.val[k].flags = 0

---------------------------------------------------------------------------
(* The subtype field of a text row *)

\* The value the subtype token names, read by itself: the AppType of that
\* name, else the DataType of that name, else the number 0..255 it parses as
TokenSubType(tok) ==
    IF \E x \in AppTypeRepr : AppTypeName[x] = tok
    THEN Ok(SubApp(CHOOSE x \in AppTypeRepr : AppTypeName[x] = tok))
    ELSE IF \E y \in DataTypeRepr : DataTypeName[y] = tok
    THEN Ok(SubData(CHOOSE y \in DataTypeRepr : DataTypeName[y] = tok))
    ELSE IF IsOk(ParseU8(tok)) THEN Ok(SubCustom(ParseU8(tok).val))
    ELSE Err(CsvError)

\* Row k is reached by the loop and its name and type fields deserialise
RowReached(k) ==
    /\ \A j \in 1..(k - 1) : IsOk(PushedRow(j))
    /\ Len(CsvRecords(input)[k]) >= 3
    /\ IsOk(deserialize_partition_type(CsvRecords(input)[k][2]))

\* C23, as stated, for the texts the caller wrote: the subtype of the
\* partition produced for a row is the
\* value its subtype token names, read by itself: App(x) for the name of
\* AppType x, else Data(y) for the name of DataType y, else Custom(n) for an
\* integer n in 0..=255; any other token is a format error.
C23_SubtypeByToken ==
    (result.op = "try_from_str" /\ origin = "raw" /\ ~IsPanic(result.out))
        => \A k \in 1..Len(CsvRecords(input)) :
              RowReached(k)
                 => LET named == TokenSubType(CsvRecords(input)[k][3])
                    IN  /\ ~IsOk(named) => result.out = Err(CsvError)
                        /\ (IsOk(named) /\ IsOk(result.out))
                              => result.out.val[k].subtype = named.val

\* C23, amended, for the texts the caller wrote: the token is first read by
\* itself (AppType name, else
\* DataType name, else a number 0..=255, else a format error); the
\* partition's subtype is then chosen by the row's type and the numeric code
\* c of that value: in an app row App(the AppType with code c), in a data row
\* Data(the DataType with code c), in a custom row the value as read.  When an
\* app or data row's code belongs to no variant of its enumeration the call
\* aborts.
C23_SubtypeByTypeAndCode ==
    (result.op = "try_from_str" /\ origin = "raw")
        => \A k \in 1..Len(CsvRecords(input)) :
              RowReached(k)
                 => LET named == TokenSubType(CsvRecords(input)[k][3])
                        ty == deserialize_partition_type(CsvRecords(input)[k][2]).val
                        Expected(c) ==
                            IF ty = TypeApp THEN SubApp(c)
                            ELSE IF ty = TypeData THEN SubData(c)
                            ELSE named.val
                        Aborts(c) ==
                            \/ ty = TypeApp /\ c \notin AppTypeRepr
                            \/ ty = TypeData /\ c \notin DataTypeRepr
                    IN  /\ ~IsOk(named) => result.out = Err(CsvError)
                        /\ (IsOk(named) /\ IsOk(TextRows[k]))
                              => /\ Aborts(named.val.v) => IsPanic(result.out)
                                 /\ IsOk(PushedRow(k))
                                       => PushedRow(k).val.subtype = Expected(named.val.v)
                                 /\ IsOk(result.out)
                                       => result.out.val[k].subtype = Expected(named.val.v)

\* C23: try_from_str returned a table in which the row of type 0 with the
\* subtype token "0x10" has subtype App(ota_0), and the row of type 1 with
\* the token "factory" has subtype Data(ota).
C23_CodeReadByType ==
    /\ result.op = "try_from_str" /\ origin = "raw" /\ IsOk(result.out)
    /\ \E k \in 1..Len(result.out.val) :
          /\ TokenSubType(CsvRecords(input)[k][3]) = Ok(SubCustom(16))
          /\ result.out.val[k].subtype = SubApp(16)
    /\ \E k \in 1..Len(result.out.val) :
          /\ TokenSubType(CsvRecords(input)[k][3]) = Ok(SubApp(Factory))
          /\ result.out.val[k].subtype = SubData(Ota)

---------------------------------------------------------------------------
(* The types and subtypes of decoded partitions *)

\* C24, as stated: every partition of a table returned by a binary or text
\* decode has type App, Data or Custom(n) with 0x02 <= n <= 0xFE; the codes
\* 0x00 and 0x01 are App and Data, never Custom(0) or Custom(1).
C24_TypeDomain ==
    (result.op \in Decoders /\ IsOk(result.out))
        => \A k \in 1..Len(result.out.val) :
              \/ result.out.val[k].ty \in {TypeApp, TypeData}
              \/ /\ result.out.val[k].ty.tag = "Custom"
                 /\ result.out.val[k].ty.v \in 2..254

\* C24: try_from_bytes returned a table with a partition of type
\* Custom(0xFF).
C24_CustomFF ==
    /\ result.op = "try_from_bytes" /\ IsOk(result.out)
    /\ \E k \in 1..Len(result.out.val) : result.out.val[k].ty = TypeCustom(255)


\* C25, as stated: in every table returned by a binary or text decode the
\* subtype variant of each partition matches its type: App with App(_), Data
\* with Data(_), Custom(_) with Custom(_).
C25_SubtypeMatchesType ==
    (result.op \in Decoders /\ IsOk(result.out))
        => \A k \in 1..Len(result.out.val) :
              result.out.val[k].subtype.tag = result.out.val[k].ty.tag

\* C25: try_from_str returned a table in which the row of type 0x40 with the
\* subtype token "factory" is a partition of type Custom(0x40) with subtype
\* App(factory).
C25_CustomRowAppSubtype ==
    /\ result.op = "try_from_str" /\ IsOk(result.out)
    /\ \E k \in 1..Len(result.out.val) :
          /\ result.out.val[k].ty = TypeCustom(64)
          /\ result.out.val[k].subtype = SubApp(Factory)


\* C26, as stated: try_from_bytes, for every buffer whose length is a
\* multiple of 32, and try_from_str, for every text, return a table or an
\* error, also when an App or Data row carries a subtype code or name that
\* its enumeration does not have; the decode never aborts.
C26_DecodersTotal ==
    (\/ result.op = "try_from_bytes" /\ Len(input) % PARTITION_SIZE = 0
     \/ result.op = "try_from_str")
        => ~IsPanic(result.out)

\* C26: try_from_bytes aborted on a buffer of whole records, given by the
\* caller, whose first record is a partition record of type App with the
\* subtype code 0x01, which no AppType has.
C26_UnknownSubtypeAborts ==
    /\ result.op = "try_from_bytes" /\ origin = "raw"
    /\ Len(input) % PARTITION_SIZE = 0 /\ Len(input) >= PARTITION_SIZE
    /\ SubSeq(Record(1), 1, 4) = MAGIC_BYTES \o <<0, 1>>
    /\ IsPanic(result.out)

---------------------------------------------------------------------------
(* The end marker and the checksum record of a binary table *)

\* The all-0xFF records of the buffer the caller holds
EndRecords == {k \in 1..(Len(input) \div 32) : IsEndRecord(Record(k))}

\* The partition records before record k, decoded, in record order
PartitionsOfRecordsBefore(k) ==
    LET idx == SelectSeq([j \in 1..(k - 1) |-> j], LAMBDA j : IsPartitionRecord(Record(j)))
    IN  [i \in 1..Len(idx) |-> ReadPartition(Record(idx[i])).val]

\* C27: try_from_bytes stops at the first all-0xFF record: a table it
\* returns holds exactly the partition records before that record, in record
\* order, and its result is the one it gives for the buffer cut after that
\* record, whatever records follow.
C27_StopsAtFirstEnd ==
    (result.op = "try_from_bytes" /\ Len(input) % 32 = 0)
        => LET Stops(e) ==
                  /\ IsOk(result.out) => result.out.val = PartitionsOfRecordsBefore(e)
                  /\ result.out = try_from_bytes(build, SubSeq(input, 1, 32 * e)).out
           IN  /\ IsOk(result.out) => EndRecords # {}
               /\ EndRecords # {} => Stops(First(EndRecords))

\* C27: try_from_bytes returned a table of one partition for a buffer in
\* which a partition record follows the first all-0xFF record.
C27_RecordAfterEnd ==
    /\ result.op = "try_from_bytes" /\ IsOk(result.out) /\ Len(result.out.val) = 1
    /\ \E k \in 1..(Len(input) \div 32) :
          /\ k > First(EndRecords)
          /\ IsPartitionRecord(Record(k))
          /\ IsOk(ReadPartition(Record(k)))


\* The checksum records before record e whose digest is that of the
\* partition records before them
VerifiedBefore(e) ==
    {k \in 1..(e - 1) : /\ IsChecksumRecord(Record(k))
                        /\ SubSeq(Record(k), 17, 32) = Md5(RecordsBefore(k))}

\* C28, as stated: every successful try_from_bytes has verified a checksum
\* that covers all returned partitions: a checksum record lies after the last
\* returned partition record and before the end marker, and its digest
\* matched; a buffer with partition records and an end marker but no such
\* record is not accepted.
C28_ChecksumRequired ==
    (result.op = "try_from_bytes" /\ IsOk(result.out))
        => LET Covered(e) ==
                  \E k \in VerifiedBefore(e) :
                      \A j \in (k + 1)..(e - 1) : ~IsPartitionRecord(Record(j))
           IN  EndRecords # {} /\ Covered(First(EndRecords))

\* C28, amended: the checksum record is optional.  Every checksum record
\* that lies before the end marker of a buffer try_from_bytes accepts carries
\* the digest of the partition records before it; a buffer with no checksum
\* record before its end marker is accepted when its partitions pass the
\* validator.
C28_ChecksumsMetVerified ==
    (result.op = "try_from_bytes" /\ IsOk(result.out))
        => LET AllVerified(e) ==
                  \A k \in 1..(e - 1) :
                      IsChecksumRecord(Record(k)) => k \in VerifiedBefore(e)
           IN  EndRecords # {} /\ AllVerified(First(EndRecords))

\* C28: try_from_bytes returned a table of one partition for a buffer that
\* has no checksum record before its end marker.
C28_AcceptedWithoutChecksum ==
    /\ result.op = "try_from_bytes" /\ IsOk(result.out) /\ Len(result.out.val) = 1
    /\ \A k \in 1..(First(EndRecords) - 1) : ~IsChecksumRecord(Record(k))

---------------------------------------------------------------------------
(* Partition::overlaps over the whole 32-bit range *)

\* C29, as stated: for all 32-bit offsets and sizes, overlaps(a, b) is true
\* exactly when the ranges [a.offset, a.offset + a.size) and
\* [b.offset, b.offset + b.size) intersect, the end points taken as unbounded
\* integers, also when an offset + size exceeds 2^32 - 1; and
\* overlaps(a, b) = overlaps(b, a).
C29_OverlapsExact ==
    Validated
        => \A i, j \in Rows :
              /\ overlaps(build, table[i], table[j]) = Ok(Intersect(i, j))
              /\ overlaps(build, table[i], table[j]) = overlaps(build, table[j], table[i])

\* C29: built without overflow checks, validate accepted a table in which
\* the range of "top" lies inside the range of "big", whose end exceeds
\* 2^32 - 1: overlaps answered false for the pair.
C29_WrappedOverlapMissed ==
    /\ Validated /\ build = "release" /\ result.out = OkUnit
    /\ \E p \in IntersectingPairs :
          /\ RowEnd(p[1]).top > 0
          /\ overlaps(build, table[p[1]], table[p[2]]) = Ok(FALSE)

---------------------------------------------------------------------------
(* Auto-assigned offsets never collide *)

\* The start and the exact end of the partition pushed for row k
PushedStart(k) ==
    [top |-> 0, hi |-> PushedRow(k).val.offset.hi, lo |-> PushedRow(k).val.offset.lo]
PushedEnd(k) == PlusU32(PushedStart(k), PushedRow(k).val.size)

\* C30: in a text where every row omits its offset (a text the caller
\* wrote: to_csv prints every offset) and the cursor never exceeds
\* 2^32 - 1, every row is given an offset, the offsets are
\* non-decreasing in row order, each row starts at or after the end
\* (offset + size) of the row before it, no two rows' byte ranges intersect,
\* and a table returned carries these offsets.
C30_AutoRowsDisjoint ==
    (/\ result.op = "try_from_str" /\ origin = "raw" /\ AllRowsRead
     /\ AutoRows = 1..Len(TextRows)
     /\ \A k \in 1..Len(TextRows) : CursorAfter(k).top = 0)
        => /\ \A k \in 1..Len(TextRows) : IsOk(PushedRow(k))
           /\ \A k \in 2..Len(TextRows) :
                 /\ ~Below(PushedStart(k), PushedStart(k - 1))
                 /\ ~Below(PushedStart(k), PushedEnd(k - 1))
           /\ \A i, j \in 1..Len(TextRows) :
                 i < j => ~(Below(PushedStart(i), PushedEnd(j)) /\ Below(PushedStart(j), PushedEnd(i)))
           /\ IsOk(result.out)
                 => \A k \in 1..Len(TextRows) :
                        result.out.val[k].offset = PushedRow(k).val.offset

\* C30: try_from_str returned a table for a text of two rows without
\* offsets in which the second row, of type app, was moved up from the
\* cursor 0xF000 to 0x10000.
C30_AppRowMovedUp ==
    /\ result.op = "try_from_str" /\ origin = "raw" /\ IsOk(result.out)
    /\ Len(TextRows) = 2 /\ AutoRows = {1, 2}
    /\ CursorAfter(1) = [top |-> 0, hi |-> 0, lo |-> 61440]
    /\ result.out.val[2].offset = U32(65536)

===========================================================================
